---- MODULE Spec2Model ----
(***************************************************************************)
(* Model of the scene-weaver generation pipeline                           *)
(* (src/src/hooks/useGeminiApi.ts, the V2 hook, and its caller             *)
(* src/src/pages/Index.tsx).                                               *)
(*                                                                         *)
(* Scheduling: JavaScript runs one task at a time.  A handler (a public    *)
(* operation of the hook, a timer, the settling of a remote request) runs  *)
(* to its end, and every promise continuation it made runnable runs as a   *)
(* microtask before the next handler.  One action of this model is one     *)
(* such task together with the continuations it wakes.                     *)
(*                                                                         *)
(* JS arrays are 0-based; sequences here are 1-based: prompts[i+1] is the  *)
(* code's prompts[i].  cur, inflight and currentSceneIndex keep the        *)
(* code's 0-based indices.  The scene id "S" + (i+1) is the number i+1.    *)
(***************************************************************************)
EXTENDS Integers, Sequences, FiniteSets, TLC

\* ---- bounds of the model ----
MaxScenes == 6       \* largest number of scenes of a StoryAnalysis
MaxEdits == 1        \* identity-map replacements per run outside the approval step
MaxDegraded == 1     \* scenes per run whose synthesis is not a plain full response
MaxRegens == 2       \* regenerate requests per page session
MaxKeys == 2         \* largest number of free keys of a key configuration
MaxSceneCalls == 2   \* calls of generateScenePromptFull per key configuration
MaxSentences == 3    \* sentences of a script given to the Segmenter
MaxWords == 5        \* words of a sentence
MaxDuration == 2     \* largest target duration of a scene, in seconds
MaxAnnotations == 2  \* annotations in one annotation response

\* ---- program constants ----
\* variant: one more scene per batch
PAID_PARALLEL_BATCH_SIZE_Six == 5 + 1

PAID_PARALLEL_BATCH_SIZE == 5
\* narration speed in words per minute; WORDS_PER_SECOND = WPM / 60
WPM == 121

\* ---- values ----
Null == <<>>
Some(x) == <<x>>
Val(o) == o[1]

CharIds == {"CHAR_A", "CHAR_B"}

\* A character-identity map: id -> identity; 0 stands for "no entry for this id".
\* Identities are opaque: two identities are equal iff all their fields are.
ExtractedMaps == { [c \in CharIds |-> 1] }
\* what the approval dialog may hand to approveCharacters, and what a caller
\* may hand to updateCharacters
ApprovalEdits == { [c \in CharIds |-> IF c = "CHAR_A" THEN 2 ELSE 1] }
EditedMaps == { [c \in CharIds |-> IF c = "CHAR_A" THEN 3 ELSE 0] }

SceneCounts == {0, 2, MaxScenes}
KeyConfigs == {"none", "free", "paid"}

\* characters_present of segment i (0-based), as annotation left it
PresentOf(i) == IF i % 2 = 0 THEN CharIds ELSE {"CHAR_A"}

SceneSegments(n) == [i \in 1..n |-> [characters_present |-> PresentOf(i - 1)]]

NewAnalysis(chars, n) ==
    [characters |-> chars, era |-> "era", visual_style_lock |-> "style",
     scenes |-> SceneSegments(n)]

Min(a, b) == IF a < b THEN a ELSE b

VARIABLES
    \* GenerationState (useState)
    phase, isGenerating, error,
    \* refs of the hook
    isPausedRef, isCancelledRef, pauseResolverRef, approvalResolverRef,
    storyAnalysisLock,
    \* the run in progress (generatePromptsV2 / continueFromProgress)
    pc, runKind, usePaidParallel, hasKeys, prompts, cur, inflight, callChars,
    batchResults, degraded,
    \* the pacing timer of the loop when it is running: its length in ms
    timer,
    \* regenerateSceneV2 in progress
    regen,
    \* localStorage 'scene_weaver_progress' and Index's savedProgress
    snapshot, savedProgress,
    \* Index's prompts (the list on display) and the number of regenerate requests
    shown, regens,
    \* observations: what the run returned, the snapshots it wrote (in order),
    \* the identity map as approved, the number of identity-map replacements,
    \* the project a resumed run was given
    result, snapLog, approvedChars, edits, resumed,
    \* the key configuration and the rotation counter (apiKeys, callCountRef)
    apiKeys, callCountRef,
    \* the calls of generateScenePromptFull under way, one per caller
    call,
    \* observations: the free key each logical call asked first, as long as no
    \* request has failed; whether none has failed; scene calls made so far
    firstKeys, allFirstTry, sceneCalls,
    \* the last call of splitScriptDeterministically: its arguments and result
    split,
    \* analyzeStoryDeep under way: its position and its locals
    an,
    \* the last scene prompt built from a response: its inputs and the prompt
    stamp,
    \* the errors regenerateSceneV2 has thrown from its guards, in order
    thrown

stateVars == <<phase, isGenerating, error>>
refVars == <<isPausedRef, isCancelledRef, pauseResolverRef, approvalResolverRef,
             storyAnalysisLock>>
runVars == <<pc, runKind, usePaidParallel, hasKeys, prompts, cur, inflight,
             callChars, batchResults, degraded>>
storeVars == <<snapshot, savedProgress>>
pageVars == <<shown, regens>>
paceVars == <<timer>>
obsVars == <<result, snapLog, approvedChars, edits, resumed>>
mainVars == <<stateVars, refVars, runVars, paceVars, regen, storeVars, pageVars,
              obsVars>>
callVars == <<apiKeys, callCountRef, call, firstKeys, allFirstTry, sceneCalls>>
splitVars == <<split>>
analysisVars == <<an>>
stampVars == <<stamp>>
guardVars == <<thrown>>
stepVars == <<splitVars, analysisVars, stampVars, guardVars>>
vars == <<mainVars, callVars, stepVars>>

\* ---- pure helpers of the hook ----

\* generateScenePromptFull, stamping loop: identity && performance
StampRemote(chars, present, perf) ==
    [c \in {d \in present : chars[d] # 0 /\ d \in perf} |-> chars[c]]

\* buildLocalScene, characterLock loop: every present id with an identity
StampLocal(chars, present) ==
    [c \in {d \in present : chars[d] # 0} |-> chars[c]]

\* buildLocalScene: generic defaults of background_lock and camera
DefaultBackground == 0
DefaultCamera == 0

\* what the remote service describes for scene sceneIndex: a background and a
\* camera of the scene's own
RemoteBackground(sceneIndex) == sceneIndex + 1
RemoteCamera(sceneIndex) == sceneIndex + 1

\* variant: a local build always takes the generic defaults
InheritedNothing(previousScenePrompt, field, default) == default

\* buildLocalScene: previousScenePrompt?.background_lock || {defaults},
\* previousScenePrompt?.camera || {defaults}
Inherited(previousScenePrompt, field, default) ==
    IF previousScenePrompt = Null THEN default
    ELSE Val(previousScenePrompt)[field]

\* The prompt generateScenePromptFull returns for scene sceneIndex.
\* outcome "remote": parsed response accepted, perf being the ids for which
\* sceneData.character_performances has an entry; "[SANITIZED]" /
\* "[BLOCKED]": local build.
ScenePromptFrom(seg, sceneIndex, chars, outcome, previousScenePrompt, perf) ==
    [scene_id |-> sceneIndex + 1,
     character_lock |->
        IF outcome = "remote"
        THEN StampRemote(chars, seg.characters_present, perf)
        ELSE StampLocal(chars, seg.characters_present),
     background_lock |->
        IF outcome = "remote" THEN RemoteBackground(sceneIndex)
        ELSE Inherited(previousScenePrompt, "background_lock", DefaultBackground),
     camera |->
        IF outcome = "remote" THEN RemoteCamera(sceneIndex)
        ELSE Inherited(previousScenePrompt, "camera", DefaultCamera),
     marker |-> IF outcome = "remote" THEN "" ELSE outcome]

\* free loops: prompts.length > 0 ? prompts[prompts.length - 1] : undefined
PreviousPrompt(ps) == IF Len(ps) > 0 THEN Some(ps[Len(ps)]) ELSE Null

\* paid loops: batchStart > 0 ? prompts[batchStart - 1] : undefined
PreviousBatchPrompt(ps, batchStart) ==
    IF batchStart > 0 /\ batchStart <= Len(ps) THEN Some(ps[batchStart]) ELSE Null

\* regenerateSceneV2: sceneIndex > 0 ? currentPrompts[sceneIndex - 1] : undefined
PreviousOfScene(currentPrompts, sceneIndex) ==
    IF sceneIndex > 0 /\ sceneIndex <= Len(currentPrompts)
    THEN Some(currentPrompts[sceneIndex]) ELSE Null

\* the prompt of a scene whose response, if accepted, has a performance for
\* every present character
ScenePrompt(seg, sceneIndex, chars, outcome, previousScenePrompt) ==
    ScenePromptFrom(seg, sceneIndex, chars, outcome, previousScenePrompt,
                    seg.characters_present)

Outcomes == {"remote", "[SANITIZED]", "[BLOCKED]"}

\* a JS array slot never assigned
Hole == [scene_id |-> 0, character_lock |-> <<>>, background_lock |-> 0,
         camera |-> 0, marker |-> "hole"]

\* prompts[index] = value on a JS array (0-based index)
SetAt(arr, index, value) ==
    [k \in 1..(IF index + 1 > Len(arr) THEN index + 1 ELSE Len(arr)) |->
        IF k = index + 1 THEN value
        ELSE IF k <= Len(arr) THEN arr[k] ELSE Hole]

\* prompts.filter(Boolean)
FilterBoolean(arr) == SelectSeq(arr, LAMBDA p : p # Hole)

\* variant: results pushed in another order than the scene order
RECURSIVE PlaceBatchPushed(_, _)
PlaceBatchPushed(arr, results) ==
    IF DOMAIN results = {} THEN arr
    ELSE LET i == CHOOSE j \in DOMAIN results : \A k \in DOMAIN results : j >= k
         IN PlaceBatchPushed(Append(arr, results[i]),
                             [k \in DOMAIN results \ {i} |-> results[k]])

\* variant: the first result of the batch is not placed
PlaceBatchDropsFirst(arr, results) ==
    IF DOMAIN results = {} THEN arr
    ELSE LET i == CHOOSE j \in DOMAIN results : \A k \in DOMAIN results : j <= k
         IN PlaceBatchPushed(arr, [k \in DOMAIN results \ {i} |-> results[k]])

\* batchResults.sort(by index); for (result) prompts[result.index] = result.prompt
RECURSIVE PlaceBatch(_, _)
PlaceBatch(arr, results) ==
    IF DOMAIN results = {} THEN arr
    ELSE LET i == CHOOSE j \in DOMAIN results : \A k \in DOMAIN results : j <= k
         IN PlaceBatch(SetAt(arr, i, results[i]),
                       [k \in DOMAIN results \ {i} |-> results[k]])

\* variant: a save under way records the scene just done, not the next one
ProjectStateLastDone(analysis, ps, currentIndex, isComplete) ==
    [storyAnalysis |-> analysis, prompts |-> ps,
     currentSceneIndex |-> IF isComplete THEN currentIndex ELSE currentIndex - 1,
     isComplete |-> isComplete]

\* variant: the completing save restarts the index
ProjectStateIndexReset(analysis, ps, currentIndex, isComplete) ==
    [storyAnalysis |-> analysis, prompts |-> ps,
     currentSceneIndex |-> IF isComplete THEN 0 ELSE currentIndex,
     isComplete |-> isComplete]

\* variant: the prompts are saved as they were before the last result was added
ProjectStateStale(analysis, ps, currentIndex, isComplete) ==
    [storyAnalysis |-> analysis,
     prompts |-> IF isComplete THEN ps ELSE SubSeq(ps, 1, Len(ps) - 1),
     currentSceneIndex |-> currentIndex, isComplete |-> isComplete]

\* saveProgress: the ProjectState written to localStorage
ProjectState(analysis, ps, currentIndex, isComplete) ==
    [storyAnalysis |-> analysis, prompts |-> ps,
     currentSceneIndex |-> currentIndex, isComplete |-> isComplete]

\* the callers of generateScenePromptFull: "a" is the scene of a sequential
\* loop or a member of a batch, "b" another member of the same batch
Callers == {"a", "b"}

\* no call of generateScenePromptFull under way
IdleCall ==
    [st |-> "idle", attempt |-> 0, distress |-> FALSE,
     pass |-> "none", currentIndex |-> 0, triedIndices |-> {},
     asked |-> <<>>, failed |-> {}, requests |-> 0, raised |-> FALSE,
     failures |-> 0, interference |-> FALSE,
     hint |-> Null, lastRetryDelay |-> 60000, cooldowns |-> <<>>,
     response |-> Null, result |-> Null]

\* analyzeStoryDeep is not running; answers and kinds keep what the remote
\* calls of the run came to, thrownIn the step that threw
IdleAnalysis ==
    [st |-> "idle", textFragments |-> <<>>, nameData |-> FALSE, characters |-> Null,
     batchStart |-> 0, allScenes |-> <<>>,
     characterStates |-> [c \in CharIds |-> Null],
     answers |-> <<>>, kinds |-> <<>>, thrownIn |-> "none",
     events |-> <<>>]

Init ==
    /\ phase = "idle" /\ isGenerating = FALSE /\ error = "null"
    /\ isPausedRef = FALSE /\ isCancelledRef = FALSE
    /\ pauseResolverRef = FALSE /\ approvalResolverRef = FALSE
    /\ storyAnalysisLock = Null
    /\ pc = "none" /\ runKind = "none" /\ usePaidParallel = FALSE /\ hasKeys = FALSE
    /\ prompts = <<>> /\ cur = 0 /\ inflight = {} /\ callChars = Null
    /\ batchResults = <<>> /\ degraded = 0
    /\ timer = Null
    /\ regen = Null
    /\ snapshot = Null /\ savedProgress = Null
    /\ shown = <<>> /\ regens = 0
    /\ result = Null /\ snapLog = <<>> /\ approvedChars = Null /\ edits = 0
    /\ resumed = Null
    /\ apiKeys = [freeKeys |-> 0, paidKey |-> FALSE] /\ callCountRef = 0
    /\ call = [c \in Callers |-> IdleCall]
    /\ firstKeys = <<>> /\ allFirstTry = TRUE /\ sceneCalls = 0
    /\ split = Null
    /\ an = IdleAnalysis
    /\ stamp = Null
    /\ thrown = <<>>

\* ---- the generation loop (generatePromptsV2 and continueFromProgress) ----

\* The part of the state a loop step reads after the handler that woke it has
\* run: st carries the handler's writes (phase, flags, resolver, analysis,
\* prompts); the rest is the current state.
Base(st) ==
    [phase |-> st.phase, isGenerating |-> st.isGenerating, error |-> st.error,
     pauseResolverRef |-> st.resolver,
     pc |-> pc, cur |-> cur, inflight |-> inflight, callChars |-> callChars,
     snapshot |-> snapshot, snapLog |-> st.snapLog, result |-> st.result]

\* if (isCancelledRef.current) { setState({... phase: 'idle', error: 'Generation cancelled'}); return prompts; }
CancelledExit(st) ==
    [Base(st) EXCEPT !.phase = "idle", !.isGenerating = FALSE,
                     !.error = "Generation cancelled",
                     !.pc = "none", !.inflight = {}, !.callChars = Null,
                     !.result = Some([outcome |-> "cancelled", prompts |-> st.prompts])]

\* after the loop: setState({... phase: 'idle', error: null});
\* saveProgress(..., prompts, prompts.length, true); return prompts
CompleteExit(st) ==
    [Base(st) EXCEPT !.phase = "idle", !.isGenerating = FALSE, !.error = "null",
                     !.pc = "none", !.inflight = {}, !.callChars = Null,
                     !.snapshot = Some(ProjectState(st.analysis, st.prompts,
                                                    Len(st.prompts), TRUE)),
                     !.snapLog = Append(st.snapLog,
                                        ProjectState(st.analysis, st.prompts,
                                                     Len(st.prompts), TRUE)),
                     !.result = Some([outcome |-> "completed", prompts |-> st.prompts])]

\* await waitIfPaused() with isPausedRef.current set: pauseResolverRef.current = resolve
PauseWait(i, st) ==
    [Base(st) EXCEPT !.pc = "pausewait", !.cur = i, !.pauseResolverRef = TRUE]

\* the synthesis calls of one iteration: scene i (free), or the batch
\* i .. batchEnd-1 (paid), each given finalAnalysis.characters as it is now
StartSynthesis(i, st) ==
    LET n == Len(st.analysis.scenes)
        batchEnd == Min(i + PAID_PARALLEL_BATCH_SIZE, n)
    IN [Base(st) EXCEPT !.pc = "synth", !.cur = i,
                        !.inflight = IF st.paid THEN i..(batchEnd - 1) ELSE {i},
                        !.callChars = Some(st.analysis.characters)]

\* what follows `await waitIfPaused()` once it returns: the free loop checks
\* isCancelledRef again, the paid loop does not
AfterWaitIfPaused(i, st) ==
    IF ~st.paid /\ st.cancelled THEN CancelledExit(st)
    ELSE StartSynthesis(i, st)

\* variant: the pause flag is not consulted
WaitIfPausedIgnored(i, st) == AfterWaitIfPaused(i, st)

\* waitIfPaused: if (isPausedRef.current) await new Promise(...)
WaitIfPaused(i, st) ==
    IF st.paused THEN PauseWait(i, st) ELSE AfterWaitIfPaused(i, st)

\* one pass through the head of the for loop with index i
LoopTop(i, st) ==
    IF i >= Len(st.analysis.scenes) THEN CompleteExit(st)
    ELSE IF st.cancelled THEN CancelledExit(st)
    ELSE WaitIfPaused(i, st)

Apply(r) ==
    /\ phase' = r.phase /\ isGenerating' = r.isGenerating /\ error' = r.error
    /\ pauseResolverRef' = r.pauseResolverRef
    /\ pc' = r.pc /\ cur' = r.cur /\ inflight' = r.inflight /\ callChars' = r.callChars
    /\ snapshot' = r.snapshot /\ snapLog' = r.snapLog /\ result' = r.result

\* the handler's view of the state, to be amended with its writes
Now ==
    [phase |-> phase, isGenerating |-> isGenerating, error |-> error,
     resolver |-> pauseResolverRef, paused |-> isPausedRef,
     cancelled |-> isCancelledRef,
     analysis |-> IF storyAnalysisLock = Null THEN NewAnalysis([c \in CharIds |-> 0], 0)
                  ELSE Val(storyAnalysisLock),
     prompts |-> prompts, paid |-> usePaidParallel,
     snapLog |-> snapLog, result |-> result]

\* ---- generatePromptsV2 ----

\* The call itself, up to its first suspension.  keys is the credential
\* configuration the callback closed over.  With no credential callGemini
\* throws at the first call of analyzeStoryDeep, before anything is awaited,
\* and the catch block ends the run in the same task.
StartRun(keys) ==
    /\ pc = "none" /\ ~isGenerating
    /\ snapshot = Null
    /\ isPausedRef' = FALSE /\ isCancelledRef' = FALSE
    /\ runKind' = "fresh" /\ usePaidParallel' = (keys = "paid") /\ hasKeys' = (keys # "none")
    /\ prompts' = <<>> /\ cur' = 0 /\ inflight' = {} /\ callChars' = Null
    /\ batchResults' = <<>> /\ degraded' = 0
    /\ snapLog' = <<>> /\ approvedChars' = Null /\ edits' = 0 /\ resumed' = Null
    /\ IF keys = "none"
       THEN /\ phase' = "idle" /\ isGenerating' = FALSE /\ error' = "No API keys configured"
            /\ pc' = "none"
            /\ result' = Some([outcome |-> "error", prompts |-> <<>>])
       ELSE /\ phase' = "analyzing" /\ isGenerating' = TRUE /\ error' = "null"
            /\ pc' = "analyzing"
            /\ result' = Null
    /\ shown' = <<>>
    /\ UNCHANGED <<pauseResolverRef, approvalResolverRef, storyAnalysisLock, regen,
                   snapshot, savedProgress, regens>>
    /\ UNCHANGED <<paceVars, callVars>>

\* generatePromptsV2 with analyzeStoryDeep seen as one step
GeneratePromptsV2(keys) == StartRun(keys) /\ UNCHANGED stepVars

\* analyzeStoryDeep throws (a remote call failed, or an identity response did
\* not parse): catch block of generatePromptsV2
AnalysisThrows ==
    /\ pc = "analyzing"
    /\ phase' = "idle" /\ isGenerating' = FALSE /\ error' = "Generation failed"
    /\ pc' = "none"
    /\ result' = Some([outcome |-> "error", prompts |-> prompts])
    /\ UNCHANGED <<refVars, runKind, usePaidParallel, hasKeys, prompts, cur, inflight,
                   callChars, batchResults, degraded, regen, storeVars, pageVars,
                   snapLog, approvedChars, edits, resumed>>
    /\ UNCHANGED <<paceVars, callVars>>

\* analyzeStoryDeep seen as one step: it throws
AnalysisFails == AnalysisThrows /\ UNCHANGED stepVars

\* analyzeStoryDeep returns: storyAnalysisLock.current = analysis; the cancel
\* check; onCharactersExtracted; phase awaiting_approval; the approval promise
AnalysisReturns(analysis) ==
    /\ pc = "analyzing"
    /\ storyAnalysisLock' = Some(analysis)
    /\ IF isCancelledRef
       THEN /\ Apply(CancelledExit(Now))
            /\ UNCHANGED approvalResolverRef
       ELSE /\ phase' = "awaiting_approval"
            /\ approvalResolverRef' = TRUE
            /\ pc' = "approval"
            /\ UNCHANGED <<isGenerating, error, pauseResolverRef, cur, inflight,
                           callChars, snapshot, snapLog, result>>
    /\ UNCHANGED <<isPausedRef, isCancelledRef, runKind, usePaidParallel, hasKeys,
                   prompts, batchResults, degraded, regen, savedProgress, pageVars,
                   approvedChars, edits, resumed>>
    /\ UNCHANGED <<paceVars, callVars>>

\* analyzeStoryDeep seen as one step: it returns an analysis of n scenes
AnalysisDone(chars, n) == AnalysisReturns(NewAnalysis(chars, n)) /\ UNCHANGED stepVars

\* ---- public controls ----

\* approveCharacters(updatedCharacters?): the optional overwrite of the
\* identity map, then the approval promise is resolved with true and
\* generatePromptsV2 goes on to the head of its loop
ApproveCharacters(updated) ==
    LET applies == updated # Null /\ storyAnalysisLock # Null
        lock == IF applies
                THEN Some([Val(storyAnalysisLock) EXCEPT !.characters = Val(updated)])
                ELSE storyAnalysisLock
        late == applies /\ ~approvalResolverRef
    IN /\ late => edits < MaxEdits
       /\ applies \/ approvalResolverRef
       /\ storyAnalysisLock' = lock
       /\ edits' = IF late THEN edits + 1 ELSE edits
       /\ IF approvalResolverRef
          THEN /\ approvalResolverRef' = FALSE
               /\ approvedChars' = Some(Val(lock).characters)
               /\ IF isCancelledRef
                  THEN Apply(CancelledExit(Now))
                  ELSE Apply(LoopTop(0, [Now EXCEPT !.phase = "generating",
                                                    !.analysis = Val(lock)]))
          ELSE UNCHANGED <<approvalResolverRef, approvedChars, stateVars,
                           pauseResolverRef, pc, cur, inflight, callChars,
                           snapshot, snapLog, result>>
       /\ UNCHANGED <<isPausedRef, isCancelledRef, runKind, usePaidParallel, hasKeys,
                      prompts, batchResults, degraded, regen, savedProgress, pageVars,
                      resumed>>
       /\ UNCHANGED <<paceVars, callVars, stepVars>>

\* updateCharacters(characters)
UpdateCharacters(characters) ==
    /\ storyAnalysisLock # Null
    /\ edits < MaxEdits
    /\ storyAnalysisLock' = Some([Val(storyAnalysisLock) EXCEPT !.characters = characters])
    /\ edits' = edits + 1
    /\ UNCHANGED <<stateVars, isPausedRef, isCancelledRef, pauseResolverRef,
                   approvalResolverRef, runVars, regen, storeVars, pageVars,
                   result, snapLog, approvedChars, resumed>>
    /\ UNCHANGED <<paceVars, callVars, stepVars>>

\* pauseGeneration
PauseGeneration ==
    /\ isPausedRef' = TRUE
    /\ phase' = "paused"
    /\ UNCHANGED <<isGenerating, error, isCancelledRef, pauseResolverRef,
                   approvalResolverRef, storyAnalysisLock, runVars, regen,
                   storeVars, pageVars, obsVars>>
    /\ UNCHANGED <<paceVars, callVars, stepVars>>

\* variant: the flag and the phase are reset, the waiting loop is not woken
ResumeGenerationFlagOnly ==
    /\ isPausedRef' = FALSE
    /\ phase' = "generating"
    /\ UNCHANGED <<isGenerating, error, isCancelledRef, pauseResolverRef,
                   approvalResolverRef, storyAnalysisLock, runVars, regen,
                   storeVars, pageVars, obsVars>>
    /\ UNCHANGED <<paceVars, callVars, stepVars>>

\* resumeGeneration; a loop blocked in waitIfPaused goes on
ResumeGeneration ==
    /\ isPausedRef' = FALSE
    /\ IF pauseResolverRef
       THEN Apply(AfterWaitIfPaused(cur, [Now EXCEPT !.phase = "generating",
                                                     !.paused = FALSE,
                                                     !.resolver = FALSE]))
       ELSE /\ phase' = "generating"
            /\ UNCHANGED <<isGenerating, error, pauseResolverRef, pc, cur, inflight,
                           callChars, snapshot, snapLog, result>>
    /\ UNCHANGED <<isCancelledRef, approvalResolverRef, storyAnalysisLock, runKind,
                   usePaidParallel, hasKeys, prompts, batchResults, degraded, regen,
                   savedProgress, pageVars, approvedChars, edits, resumed>>
    /\ UNCHANGED <<paceVars, callVars, stepVars>>

\* cancelGeneration; a loop blocked in waitIfPaused goes on, a run blocked in
\* the approval wait gets approved = false
CancelGeneration ==
    /\ isCancelledRef' = TRUE
    /\ isPausedRef' = FALSE
    /\ IF pauseResolverRef
       THEN /\ Apply(AfterWaitIfPaused(cur, [Now EXCEPT !.cancelled = TRUE,
                                                        !.paused = FALSE,
                                                        !.resolver = FALSE]))
            /\ UNCHANGED approvalResolverRef
       ELSE IF approvalResolverRef
       THEN /\ approvalResolverRef' = FALSE
            /\ Apply(CancelledExit([Now EXCEPT !.cancelled = TRUE, !.paused = FALSE]))
       ELSE UNCHANGED <<stateVars, pauseResolverRef, approvalResolverRef, pc, cur,
                        inflight, callChars, snapshot, snapLog, result>>
    /\ UNCHANGED <<storyAnalysisLock, runKind, usePaidParallel, hasKeys, prompts,
                   batchResults, degraded, regen, savedProgress, pageVars, approvedChars,
                   edits, resumed>>
    /\ UNCHANGED <<paceVars, callVars, stepVars>>

\* ---- the loop body ----

\* calculateDelay(): Math.max(300, Math.ceil(6500 / numKeys)), 6500 without
\* free keys
CalculateDelay(numKeys) ==
    IF numKeys = 0 THEN 6500
    ELSE LET ceil == (6500 + numKeys - 1) \div numKeys
         IN IF ceil > 300 THEN ceil ELSE 300

\* delayForFreeAPI(ms = 12000): the length of the timer it awaits, 50 ms when
\* a paid key is configured
DelayForFreeAPI(ms, paidKey) == IF paidKey THEN 50 ELSE ms

\* the outcomes generateScenePromptFull can have under the run's credentials:
\* without any credential every attempt throws and the scene is built locally
OutcomeAllowed(outcome) ==
    IF hasKeys THEN outcome = "remote" \/ degraded < MaxDegraded
    ELSE outcome = "[BLOCKED]"

\* free loop: generateScenePromptFull for scene i returns;
\* prompts.push; onProgress; saveProgress(..., prompts, i + 1); delayForFreeAPI
SceneSettlesFree(i, outcome) ==
    LET analysis == Val(storyAnalysisLock)
        prompt == ScenePrompt(analysis.scenes[i + 1], i, Val(callChars), outcome,
                              PreviousPrompt(prompts))
        ps == Append(prompts, prompt)
    IN /\ pc = "synth" /\ ~usePaidParallel /\ i \in inflight
       /\ OutcomeAllowed(outcome)
       /\ degraded' = IF hasKeys /\ outcome # "remote" THEN degraded + 1 ELSE degraded
       /\ prompts' = ps
       /\ shown' = ps
       /\ snapshot' = Some(ProjectState(analysis, ps, i + 1, FALSE))
       /\ snapLog' = Append(snapLog, ProjectState(analysis, ps, i + 1, FALSE))
       /\ pc' = "delay" /\ inflight' = {} /\ callChars' = Null
       /\ timer' = Some(DelayForFreeAPI(12000, usePaidParallel))
       /\ UNCHANGED <<stateVars, refVars, runKind, usePaidParallel, hasKeys, cur,
                      batchResults, regen, savedProgress, regens, result, approvedChars,
                      edits, resumed>>
       /\ UNCHANGED <<callVars, stepVars>>

\* paid loop: one member of the batch settles; when it is the last one
\* Promise.all resolves: results placed by index, onProgress, saveProgress
\* (..., prompts.filter(Boolean), batchEnd), delayForFreeAPI
SceneSettlesPaid(i, outcome) ==
    LET analysis == Val(storyAnalysisLock)
        prompt == ScenePrompt(analysis.scenes[i + 1], i, Val(callChars), outcome,
                              PreviousBatchPrompt(prompts, cur))
        results == [k \in DOMAIN batchResults \cup {i} |->
                        IF k = i THEN prompt ELSE batchResults[k]]
        batchEnd == Min(cur + PAID_PARALLEL_BATCH_SIZE, Len(analysis.scenes))
        ps == PlaceBatch(prompts, results)
    IN /\ pc = "synth" /\ usePaidParallel /\ i \in inflight
       /\ OutcomeAllowed(outcome)
       /\ degraded' = IF hasKeys /\ outcome # "remote" THEN degraded + 1 ELSE degraded
       /\ inflight' = inflight \ {i}
       /\ IF inflight' = {}
          THEN /\ prompts' = ps
               /\ shown' = FilterBoolean(ps)
               /\ batchResults' = <<>>
               /\ snapshot' = Some(ProjectState(analysis, FilterBoolean(ps), batchEnd, FALSE))
               /\ snapLog' = Append(snapLog, ProjectState(analysis, FilterBoolean(ps),
                                                           batchEnd, FALSE))
               /\ pc' = "delay" /\ callChars' = Null
               /\ timer' = Some(DelayForFreeAPI(12000, usePaidParallel))
          ELSE /\ batchResults' = results
               /\ UNCHANGED <<prompts, shown, snapshot, snapLog, pc, callChars, timer>>
       /\ UNCHANGED <<stateVars, refVars, runKind, usePaidParallel, hasKeys, cur,
                      regen, savedProgress, regens, result, approvedChars, edits,
                      resumed>>
       /\ UNCHANGED <<callVars, stepVars>>

\* the timer of delayForFreeAPI fires: next iteration of the for loop
DelayDone ==
    /\ pc = "delay"
    /\ Apply(LoopTop(IF usePaidParallel THEN cur + PAID_PARALLEL_BATCH_SIZE ELSE cur + 1,
                     Now))
    /\ UNCHANGED <<isPausedRef, isCancelledRef, approvalResolverRef, storyAnalysisLock,
                   runKind, usePaidParallel, hasKeys, prompts, batchResults, degraded,
                   regen, savedProgress, pageVars, approvedChars, edits, resumed>>
    /\ timer' = Null
    /\ UNCHANGED <<callVars, stepVars>>

\* ---- continueFromProgress ----

\* variant: the resumed loop starts over at the first scene
StartIndexZero(project) == 0

\* const startIndex = project.currentSceneIndex
StartIndex(project) == project.currentSceneIndex

\* handleContinueProgress passes the snapshot found at page load;
\* continueFromProgress restores it and enters its loop at startIndex
ContinueFromProgress(keys) ==
    LET project == Val(savedProgress)
    IN /\ pc = "none" /\ ~isGenerating /\ savedProgress # Null
       /\ isPausedRef' = FALSE /\ isCancelledRef' = FALSE
       /\ storyAnalysisLock' = Some(project.storyAnalysis)
       /\ prompts' = project.prompts
       /\ savedProgress' = Null
       /\ shown' = project.prompts
       /\ runKind' = "continue" /\ usePaidParallel' = (keys = "paid")
       /\ hasKeys' = (keys # "none")
       /\ batchResults' = <<>> /\ degraded' = 0
       /\ approvedChars' = Null /\ edits' = 0 /\ resumed' = Some(project)
       /\ Apply(LoopTop(StartIndex(project),
                        [phase |-> "generating", isGenerating |-> TRUE, error |-> "null",
                         resolver |-> pauseResolverRef, paused |-> FALSE,
                         cancelled |-> FALSE, analysis |-> project.storyAnalysis,
                         prompts |-> project.prompts, paid |-> (keys = "paid"),
                         snapLog |-> <<>>, result |-> Null]))
       /\ UNCHANGED <<approvalResolverRef, regen, regens>>
       /\ UNCHANGED <<paceVars, callVars, stepVars>>

\* ---- regenerateSceneV2 ----

\* variant: the list is cut after the replaced prompt
UpdatePromptCut(prev, index, updatedPrompt) ==
    Append(SubSeq(prev, 1, Min(index, Len(prev))), updatedPrompt)

\* Index.handleUpdatePrompt: newPrompts = [...prev]; newPrompts[index] = updatedPrompt
UpdatePrompt(prev, index, updatedPrompt) == SetAt(prev, index, updatedPrompt)

\* handleRegenerateScene(index) -> regenerateSceneV2(index, prompts), up to its
\* suspension in generateScenePromptFull.  The button belongs to a prompt on
\* display and is disabled while a regeneration is under way; the call holds
\* the segment, the identity map and the previous prompt it read when made.
RegenerateSceneV2(sceneIndex) ==
    /\ storyAnalysisLock # Null
    /\ regen = Null
    /\ regens < MaxRegens
    /\ sceneIndex >= 0 /\ sceneIndex < Len(Val(storyAnalysisLock).scenes)
    /\ sceneIndex < Len(shown)
    /\ phase' = "generating" /\ isGenerating' = TRUE
    /\ regen' = Some([sceneIndex |-> sceneIndex,
                      segment |-> Val(storyAnalysisLock).scenes[sceneIndex + 1],
                      characters |-> Val(storyAnalysisLock).characters,
                      previousPrompt |-> PreviousOfScene(shown, sceneIndex)])
    /\ regens' = regens + 1
    /\ UNCHANGED <<error, refVars, runVars, storeVars, shown, obsVars>>
    /\ UNCHANGED <<paceVars, callVars, stepVars>>

\* generateScenePromptFull returns (it never throws): setState({... phase: 'idle'});
\* handleUpdatePrompt(index, newPrompt)
RegenerateDone(outcome) ==
    /\ regen # Null
    /\ LET r == Val(regen)
           newPrompt == ScenePrompt(r.segment, r.sceneIndex, r.characters, outcome,
                                    r.previousPrompt)
       IN shown' = UpdatePrompt(shown, r.sceneIndex, newPrompt)
    /\ phase' = "idle" /\ isGenerating' = FALSE /\ error' = "null"
    /\ regen' = Null
    /\ UNCHANGED <<refVars, runVars, storeVars, regens, obsVars>>
    /\ UNCHANGED <<paceVars, callVars, stepVars>>

\* variant: the state is set to generating before the guards are looked at
RegenerateRejectedAfterSetState(sceneIndex) ==
    /\ regens < MaxRegens
    /\ IF storyAnalysisLock = Null THEN TRUE
       ELSE sceneIndex < 0 \/ sceneIndex >= Len(Val(storyAnalysisLock).scenes)
    /\ thrown' = Append(thrown, IF storyAnalysisLock = Null
                                THEN "No previous analysis available"
                                ELSE "Invalid scene index")
    /\ regens' = regens + 1
    /\ phase' = "generating" /\ isGenerating' = TRUE
    /\ UNCHANGED <<error, refVars, runVars, paceVars, regen, storeVars, shown, obsVars>>
    /\ UNCHANGED <<callVars, splitVars, analysisVars, stampVars>>

\* regenerateSceneV2(sceneIndex, currentPrompts) called without a
\* StoryAnalysis or with an index outside its scenes: the guard throws
RegenerateRejected(sceneIndex) ==
    /\ regens < MaxRegens
    /\ IF storyAnalysisLock = Null THEN TRUE
       ELSE sceneIndex < 0 \/ sceneIndex >= Len(Val(storyAnalysisLock).scenes)
    /\ thrown' = Append(thrown, IF storyAnalysisLock = Null
                                THEN "No previous analysis available"
                                ELSE "Invalid scene index")
    /\ regens' = regens + 1
    /\ UNCHANGED <<stateVars, refVars, runVars, paceVars, regen, storeVars, shown, obsVars>>
    /\ UNCHANGED <<callVars, splitVars, analysisVars, stampVars>>

\* clearProgress: localStorage.removeItem; handleDismissProgress drops the offer
ClearProgress ==
    /\ pc = "none"
    /\ snapshot # Null
    /\ snapshot' = Null /\ savedProgress' = Null
    /\ UNCHANGED <<stateVars, refVars, runVars, regen, pageVars, obsVars>>
    /\ UNCHANGED <<paceVars, callVars, stepVars>>

\* ---- page load ----

\* The page is closed or reloaded: state and refs are constructed anew, only
\* localStorage survives; Index's mount effect offers an incomplete snapshot.
Reload ==
    /\ phase' = "idle" /\ isGenerating' = FALSE /\ error' = "null"
    /\ isPausedRef' = FALSE /\ isCancelledRef' = FALSE
    /\ pauseResolverRef' = FALSE /\ approvalResolverRef' = FALSE
    /\ storyAnalysisLock' = Null
    /\ pc' = "none" /\ runKind' = "none" /\ usePaidParallel' = FALSE /\ hasKeys' = FALSE
    /\ prompts' = <<>> /\ cur' = 0 /\ inflight' = {} /\ callChars' = Null
    /\ batchResults' = <<>> /\ degraded' = 0
    /\ regen' = Null
    /\ shown' = <<>> /\ regens' = 0
    /\ savedProgress' = IF snapshot # Null /\ ~Val(snapshot).isComplete
                        THEN snapshot ELSE Null
    /\ result' = Null /\ snapLog' = <<>> /\ approvedChars' = Null /\ edits' = 0
    /\ resumed' = Null
    /\ UNCHANGED snapshot
    /\ timer' = Null
    /\ UNCHANGED <<callVars, stepVars>>

\* one page session, projects started afresh
Next ==
    \/ \E keys \in KeyConfigs : GeneratePromptsV2(keys)
    \/ AnalysisFails
    \/ \E chars \in ExtractedMaps, n \in SceneCounts : AnalysisDone(chars, n)
    \/ \E updated \in {Null} \cup {Some(m) : m \in ApprovalEdits} : ApproveCharacters(updated)
    \/ \E m \in EditedMaps : UpdateCharacters(m)
    \/ PauseGeneration
    \/ ResumeGeneration
    \/ CancelGeneration
    \/ \E i \in 0..(MaxScenes - 1), o \in Outcomes : SceneSettlesFree(i, o)
    \/ \E i \in 0..(MaxScenes - 1), o \in Outcomes : SceneSettlesPaid(i, o)
    \/ DelayDone
    \/ ClearProgress

Spec == Init /\ [][Next]_vars

\* one run under pause, resume, approve and cancel, every response accepted
NextLive ==
    \/ \E keys \in KeyConfigs : GeneratePromptsV2(keys)
    \/ AnalysisFails
    \/ \E chars \in ExtractedMaps, n \in SceneCounts : AnalysisDone(chars, n)
    \/ approvalResolverRef /\ ApproveCharacters(Null)
    \/ PauseGeneration
    \/ ResumeGeneration
    \/ CancelGeneration
    \/ \E i \in 0..(MaxScenes - 1) : SceneSettlesFree(i, "remote")
    \/ \E i \in 0..(MaxScenes - 1) : SceneSettlesPaid(i, "remote")
    \/ DelayDone

\* every remote request returns and every timer fires; whoever is asked to
\* approve does approve or cancel; a pause is followed by a resume or a cancel
Fairness ==
    /\ WF_vars(AnalysisFails
                  \/ \E chars \in ExtractedMaps, n \in SceneCounts : AnalysisDone(chars, n))
    /\ WF_vars(\E i \in 0..(MaxScenes - 1) : SceneSettlesFree(i, "remote"))
    /\ WF_vars(\E i \in 0..(MaxScenes - 1) : SceneSettlesPaid(i, "remote"))
    /\ WF_vars(DelayDone)
    /\ WF_vars(approvalResolverRef /\ (ApproveCharacters(Null) \/ CancelGeneration))
    /\ WF_vars(isPausedRef /\ (ResumeGeneration \/ CancelGeneration))

SpecLive == Init /\ [][NextLive]_vars /\ Fairness

\* page loads and resumed projects, identities as approved
NextResume ==
    \/ \E keys \in KeyConfigs : GeneratePromptsV2(keys)
    \/ AnalysisFails
    \/ \E chars \in ExtractedMaps, n \in SceneCounts : AnalysisDone(chars, n)
    \/ approvalResolverRef /\ ApproveCharacters(Null)
    \/ PauseGeneration
    \/ ResumeGeneration
    \/ CancelGeneration
    \/ \E i \in 0..(MaxScenes - 1), o \in Outcomes : SceneSettlesFree(i, o)
    \/ \E i \in 0..(MaxScenes - 1), o \in Outcomes : SceneSettlesPaid(i, o)
    \/ DelayDone
    \/ \E keys \in KeyConfigs : ContinueFromProgress(keys)
    \/ ClearProgress
    \/ Reload

SpecResume == Init /\ [][NextResume]_vars

\* one project with single scenes regenerated, during the run and after it
NextRegen ==
    \/ \E keys \in KeyConfigs \ {"none"} : GeneratePromptsV2(keys)
    \/ \E chars \in ExtractedMaps, n \in SceneCounts : AnalysisDone(chars, n)
    \/ approvalResolverRef /\ ApproveCharacters(Null)
    \/ \E i \in 0..(MaxScenes - 1), o \in Outcomes : SceneSettlesFree(i, o)
    \/ \E i \in 0..(MaxScenes - 1), o \in Outcomes : SceneSettlesPaid(i, o)
    \/ DelayDone
    \/ \E sceneIndex \in 0..(MaxScenes - 1) : RegenerateSceneV2(sceneIndex)
    \/ \E o \in Outcomes : RegenerateDone(o)

SpecRegen == Init /\ [][NextRegen]_vars

\* one project, regenerateSceneV2 called with any index at any time
NextGuard ==
    \/ \E keys \in KeyConfigs \ {"none"} : GeneratePromptsV2(keys)
    \/ \E chars \in ExtractedMaps, n \in SceneCounts : AnalysisDone(chars, n)
    \/ approvalResolverRef /\ ApproveCharacters(Null)
    \/ \E i \in 0..(MaxScenes - 1) : SceneSettlesFree(i, "remote")
    \/ \E i \in 0..(MaxScenes - 1) : SceneSettlesPaid(i, "remote")
    \/ DelayDone
    \/ \E sceneIndex \in 0..(MaxScenes - 1) : RegenerateSceneV2(sceneIndex)
    \/ \E o \in Outcomes : RegenerateDone(o)
    \/ \E sceneIndex \in (0 - 1)..MaxScenes : RegenerateRejected(sceneIndex)

SpecGuard == Init /\ [][NextGuard]_vars

\* ---- callGemini and generateScenePromptFull, request by request ----

\* generateScenePromptFull: const MAX_RETRIES = 2, with a variant of one more retry
MAX_RETRIES_Three == 2 + 1

MAX_RETRIES == 2

\* key configurations saveApiKeys may store: a number of free keys and
\* whether a paid key is set
KeyConfigurations == [freeKeys : 0..MaxKeys, paidKey : BOOLEAN]

\* outcomes of one request that is not answered with a text: 429/403, any
\* other failure (HTTP error, network), a content-policy signal (prompt block
\* reason, empty candidate list, SAFETY finish reason, empty text)
FailureKinds == {"quota", "error", "block"}

\* a text returned by callGemini: without JSON in it, or parsed, with what the
\* keyword lists find in its setting and its action summary
Bodies ==
    {[json |-> FALSE, setting |-> FALSE, action |-> FALSE]}
        \cup [json : {TRUE}, setting : BOOLEAN, action : BOOLEAN]

\* variant: only the setting is looked at
DetectSettingOnly(hasDistressNarration, hasSanitizedSetting, hasSanitizedAction) ==
    hasDistressNarration /\ hasSanitizedSetting

\* detectSanitizedScene(...).isSanitized, on what the keyword searches found
DetectSanitizedScene(hasDistressNarration, hasSanitizedSetting, hasSanitizedAction) ==
    IF ~hasDistressNarration THEN FALSE
    ELSE hasSanitizedSetting \/ hasSanitizedAction

\* what a 429/403 message may say after "retry in": nothing that parses, or a
\* number of seconds, here in tenths of a second (41.2s, 118.1s)
RetryHints == {Null, Some(412), Some(1181)}

\* Math.ceil of a number of tenths
CeilTenths(tenths) == (tenths + 9) \div 10

\* variant: the hint plus the buffer, without the cap
ParseRetryDelayUncapped(hint) ==
    IF hint # Null THEN CeilTenths(Val(hint) + 20) * 1000 ELSE 60000

\* parseRetryDelay(errorMessage), in milliseconds
ParseRetryDelay(hint) ==
    IF hint # Null THEN Min(CeilTenths(Val(hint) + 20) * 1000, 120000) ELSE 60000

\* variant: every call starts at the first key
RotationIndexFirst(count, numKeys) == 0

\* callCountRef.current % apiKeys.freeKeys.length
RotationIndex(count, numKeys) == count % numKeys

\* variant: the call stays on the key that failed
NextFreeKeySame(currentIndex, triedIndices, numKeys) == currentIndex

\* "Move to next free key": the first index after currentIndex, cyclically,
\* that is not in triedIndices; currentIndex itself when all are
NextFreeKey(currentIndex, triedIndices, numKeys) ==
    LET untried == {i \in 0..(numKeys - 1) :
                        (currentIndex + 1 + i) % numKeys \notin triedIndices}
    IN IF untried = {} THEN currentIndex
       ELSE (currentIndex + 1 + (CHOOSE i \in untried : \A j \in untried : i <= j))
                % numKeys

\* variant: the cooldown pass follows the free keys whatever the configuration
AfterFirstPassCooldown(keys) == "cooldown"

\* what callGemini does once every free key was tried: the paid key at once
\* in hybrid mode, the cooldown wait in free-only mode
AfterFirstPass(keys) == IF keys.paidKey THEN "paid" ELSE "cooldown"

\* the prompt generateScenePromptFull returns, by where its parts come from
RemoteResult ==
    [marker |-> "", background_lock |-> "response", camera |-> "response",
     scene_action_summary |-> "response"]
LocalResult(marker) ==
    [marker |-> marker, background_lock |-> "inherited", camera |-> "inherited",
     scene_action_summary |-> "action_hint"]

\* what is left of a logical call once callGemini has returned
Returned(rec) ==
    [rec EXCEPT !.pass = "none", !.currentIndex = 0, !.triedIndices = {},
                !.asked = <<>>, !.failed = {}, !.requests = 0,
                !.hint = Null, !.lastRetryDelay = 60000, !.cooldowns = <<>>]

\* the catch block of the retry loop, and what follows the loop
Catch(rec) ==
    IF rec.attempt < MAX_RETRIES
    THEN [rec EXCEPT !.st = "backoff", !.failures = @ + 1, !.pass = "none"]
    ELSE [rec EXCEPT !.st = "returned", !.failures = @ + 1, !.pass = "none",
                     !.result = Some(LocalResult("[BLOCKED]"))]

\* callGemini up to its first request, for the attempt rec.attempt: the
\* caller's record, the counter and the log after it
CallGemini(rec, count, log) ==
    LET fresh == [rec EXCEPT !.pass = "none", !.currentIndex = 0,
                             !.triedIndices = {}, !.asked = <<>>, !.failed = {},
                             !.requests = 0, !.raised = FALSE, !.response = Null,
                             !.hint = Null, !.lastRetryDelay = 60000,
                             !.cooldowns = <<>>]
        numKeys == apiKeys.freeKeys
        index == RotationIndex(count, numKeys)
    IN IF numKeys = 0 /\ ~apiKeys.paidKey
       THEN [call |-> Catch([fresh EXCEPT !.raised = TRUE]), count |-> count,
             log |-> log]
       ELSE IF numKeys = 0
       THEN [call |-> [fresh EXCEPT !.st = "request", !.pass = "paid",
                                    !.requests = 1],
             count |-> count, log |-> log]
       ELSE [call |-> [fresh EXCEPT !.st = "request", !.pass = "first",
                                    !.currentIndex = index,
                                    !.triedIndices = {index}, !.asked = <<index>>,
                                    !.requests = 1],
             count |-> count + 1,
             log |-> IF allFirstTry THEN Append(log, index) ELSE log]

ApplyCall(c, r) ==
    /\ call' = [call EXCEPT ![c] = r.call]
    /\ callCountRef' = r.count
    /\ firstKeys' = r.log

\* saveApiKeys(config): setApiKeys; callCountRef.current = 0
SaveApiKeys(config) ==
    /\ \A c \in Callers : call[c].st \in {"idle", "returned"}
    /\ apiKeys' = config
    /\ callCountRef' = 0
    /\ call' = [c \in Callers |-> IdleCall]
    /\ firstKeys' = <<>> /\ allFirstTry' = TRUE /\ sceneCalls' = 0
    /\ UNCHANGED <<mainVars, stepVars>>

\* generateScenePromptFull is called for a scene whose narration has, or has
\* not, a distress keyword: first attempt
GenerateScenePromptFull(c, hasDistressNarration) ==
    /\ call[c].st \in {"idle", "returned"}
    /\ c = "b" => apiKeys.paidKey
    /\ sceneCalls < MaxSceneCalls
    /\ sceneCalls' = sceneCalls + 1
    /\ ApplyCall(c, CallGemini([IdleCall EXCEPT !.distress = hasDistressNarration],
                               callCountRef, firstKeys))
    /\ UNCHANGED <<apiKeys, allFirstTry>>
    /\ UNCHANGED <<mainVars, stepVars>>

\* a request is answered without a text: makeApiCall returns success: false,
\* with a retryDelay when the status is 429 or 403. lastRetryDelay is kept
\* for the free-only first pass, the one place where it is read afterwards
RequestFails(c, kind, hint) ==
    LET rec == call[c]
        numKeys == apiKeys.freeKeys
        tracked == kind = "quota" /\ rec.pass = "first" /\ ~apiKeys.paidKey
        seen == [rec EXCEPT !.failed = IF rec.pass = "paid" THEN @
                                       ELSE @ \cup {rec.currentIndex},
                            !.interference = @ \/ kind = "block",
                            !.hint = IF tracked THEN hint ELSE @,
                            !.lastRetryDelay =
                                IF tracked THEN ParseRetryDelay(hint) ELSE @]
        next == NextFreeKey(rec.currentIndex, rec.triedIndices, numKeys)
    IN /\ rec.st = "request"
       /\ kind # "quota" => hint = Null
       /\ allFirstTry' = FALSE /\ firstKeys' = <<>>
       /\ call' = [call EXCEPT ![c] =
            IF rec.pass = "first"
            THEN IF Cardinality(rec.triedIndices) < numKeys
                 THEN [seen EXCEPT !.currentIndex = next,
                                   !.triedIndices = @ \cup {next},
                                   !.asked = Append(@, next),
                                   !.requests = @ + 1]
                 ELSE IF AfterFirstPass(apiKeys) = "paid"
                 THEN [seen EXCEPT !.pass = "paid",
                                   !.requests = @ + 1]
                 ELSE [seen EXCEPT !.st = "cooldown",
                                   !.cooldowns = Append(@, seen.lastRetryDelay)]
            ELSE Catch([seen EXCEPT !.raised = TRUE])]
       /\ UNCHANGED <<apiKeys, callCountRef, sceneCalls>>
       /\ UNCHANGED <<mainVars, stepVars>>

\* the cooldown timer of free-only mode fires: one more request, to the key
\* the counter points at
CooldownDone(c) ==
    LET rec == call[c]
    IN /\ rec.st = "cooldown"
       /\ call' = [call EXCEPT ![c] =
            [rec EXCEPT !.st = "request", !.pass = "retry",
                        !.currentIndex = RotationIndex(callCountRef, apiKeys.freeKeys),
                        !.requests = @ + 1]]
       /\ callCountRef' = callCountRef + 1
       /\ UNCHANGED <<apiKeys, firstKeys, allFirstTry, sceneCalls>>
       /\ UNCHANGED <<mainVars, stepVars>>

\* a request is answered with a text: callGemini returns it and
\* generateScenePromptFull parses it, runs the detector and returns, or
\* throws into its catch block when there is no JSON in it
RequestSucceeds(c, body) ==
    LET rec == call[c]
    IN /\ rec.st = "request"
       /\ call' = [call EXCEPT ![c] =
            IF ~body.json THEN Catch(rec)
            ELSE IF DetectSanitizedScene(rec.distress, body.setting, body.action)
            THEN [Returned(rec) EXCEPT !.st = "returned",
                                       !.interference = TRUE, !.response = Some(body),
                                       !.result = Some(LocalResult("[SANITIZED]"))]
            ELSE [Returned(rec) EXCEPT !.st = "returned",
                                       !.response = Some(body),
                                       !.result = Some(RemoteResult)]]
       /\ UNCHANGED <<apiKeys, callCountRef, firstKeys, allFirstTry, sceneCalls>>
       /\ UNCHANGED <<mainVars, stepVars>>

\* the retry timer of generateScenePromptFull fires: next attempt
RetryDelayDone(c) ==
    /\ call[c].st = "backoff"
    /\ ApplyCall(c, CallGemini([call[c] EXCEPT !.attempt = @ + 1],
                               callCountRef, firstKeys))
    /\ UNCHANGED <<apiKeys, allFirstTry, sceneCalls>>
    /\ UNCHANGED <<mainVars, stepVars>>

\* scene synthesis seen request by request, under every key configuration
NextCall ==
    \/ \E config \in KeyConfigurations : SaveApiKeys(config)
    \/ \E c \in Callers, d \in BOOLEAN : GenerateScenePromptFull(c, d)
    \/ \E c \in Callers, kind \in FailureKinds, hint \in RetryHints :
            RequestFails(c, kind, hint)
    \/ \E c \in Callers : CooldownDone(c)
    \/ \E c \in Callers, body \in Bodies : RequestSucceeds(c, body)
    \/ \E c \in Callers : RetryDelayDone(c)

SpecCall == Init /\ [][NextCall]_vars

\* ---- splitScriptDeterministically ----

\* A script is the list script.split(/(?<=[.!?])\s+/).filter(s => s.trim()):
\* sentence k is given by its number of words, script[k] >= 1, and is named
\* by its position k.  Times are kept in units of 1/WPM second, so that
\* words / WORDS_PER_SECOND is words * 60.
Scripts == UNION { [1..n -> 1..MaxWords] : n \in 0..MaxSentences }
SceneDurations == 1..MaxDuration

\* const DEFAULT_SCENE_DURATION = 6, also the duration the page starts with
DEFAULT_SCENE_DURATION == 6

\* the target durations the Segmenter is applied to
SplitDurations == SceneDurations \cup {DEFAULT_SCENE_DURATION}

\* variant: Math.floor(words / WORDS_PER_SECOND)
RoundSecondsFloor(words) == (words * 60) \div WPM

\* Math.round(words / WORDS_PER_SECOND)
RoundSeconds(words) == (2 * words * 60 + WPM) \div (2 * WPM)

\* the locals of splitScriptDeterministically before the first sentence
SplitStart ==
    [fragments |-> <<>>, timeBuffer |-> 0, currentFragment |-> <<>>,
     currentWordCount |-> 0, fragmentStartWord |-> 0, totalWordsSoFar |-> 0]

\* the fragment pushed from the current locals: text is the list of the
\* sentences joined, durationSec is Math.max(4, Math.round(...))
Fragment(sp) ==
    [text |-> sp.currentFragment, wordCount |-> sp.currentWordCount,
     durationSec |-> IF RoundSeconds(sp.currentWordCount) > 4
                     THEN RoundSeconds(sp.currentWordCount) ELSE 4,
     startWord |-> sp.fragmentStartWord,
     endWord |-> sp.fragmentStartWord + sp.currentWordCount - 1]

\* variant: the start of the next fragment is not moved
FlushKeepsStart(sp, sceneDuration) ==
    [sp EXCEPT !.fragments = Append(@, Fragment(sp)),
               !.timeBuffer = @ - sceneDuration * WPM,
               !.totalWordsSoFar = @ + sp.currentWordCount,
               !.currentFragment = <<>>, !.currentWordCount = 0]

\* the body of the while loop: push the fragment, carry the time over
Flush(sp, sceneDuration) ==
    [sp EXCEPT !.fragments = Append(@, Fragment(sp)),
               !.timeBuffer = @ - sceneDuration * WPM,
               !.totalWordsSoFar = @ + sp.currentWordCount,
               !.fragmentStartWord = sp.totalWordsSoFar + sp.currentWordCount,
               !.currentFragment = <<>>, !.currentWordCount = 0]

\* while (timeBuffer >= sceneDuration && currentFragment.length > 0)
RECURSIVE WhileFlush(_, _)
WhileFlush(sp, sceneDuration) ==
    IF sp.timeBuffer >= sceneDuration * WPM /\ Len(sp.currentFragment) > 0
    THEN WhileFlush(Flush(sp, sceneDuration), sceneDuration)
    ELSE sp

\* for (const sentence of sentences), from sentence k on
RECURSIVE ForSentences(_, _, _, _)
ForSentences(sp, script, k, sceneDuration) ==
    IF k > Len(script) THEN sp
    ELSE ForSentences(
            WhileFlush([sp EXCEPT !.currentFragment = Append(@, k),
                                  !.currentWordCount = @ + script[k],
                                  !.timeBuffer = @ + script[k] * 60],
                       sceneDuration),
            script, k + 1, sceneDuration)

\* splitScriptDeterministically(script, sceneDuration): the loop, then the
\* remaining text
SplitScriptDeterministically(script, sceneDuration) ==
    LET sp == ForSentences(SplitStart, script, 1, sceneDuration)
    IN IF Len(sp.currentFragment) > 0
       THEN Append(sp.fragments, Fragment(sp))
       ELSE sp.fragments

\* whether the last fragment is the remaining text pushed after the loop
HasRemainder(script, sceneDuration) ==
    Len(ForSentences(SplitStart, script, 1, sceneDuration).currentFragment) > 0

\* the Segmenter is applied to a script and a target duration
Segment(script, sceneDuration) ==
    /\ split = Null
    /\ split' = Some([script |-> script, sceneDuration |-> sceneDuration,
                      fragments |-> SplitScriptDeterministically(script, sceneDuration),
                      remainder |-> HasRemainder(script, sceneDuration)])
    /\ UNCHANGED <<mainVars, callVars, analysisVars, stampVars, guardVars>>

NextSplit == \E script \in Scripts, sceneDuration \in SplitDurations :
                Segment(script, sceneDuration)

SpecSplit == Init /\ [][NextSplit]_vars

\* ---- analyzeStoryDeep, call by call ----

\* const BATCH_SIZE = 20 (fragments per annotation request)
BATCH_SIZE == 20

\* the scripts analysed: none, two sentences, and one whose fragments need
\* two annotation requests when every sentence is a fragment
AnalysisScripts ==
    {<<>>, <<3, 3>>, [k \in 1..(BATCH_SIZE + 1) |-> 3]}

\* what a remote call of the identity passes can come to: callGemini throws,
\* the text has no {...} block, JSON.parse throws, or the block parses
CallResults == {"throws", "noblock", "unparseable", "parsed"}

\* charData.characters as the visual pass may return it: both characters,
\* one, or none
IdentityMaps ==
    ExtractedMaps \cup {[c \in CharIds |-> IF c = "CHAR_B" THEN 1 ELSE 0],
                        [c \in CharIds |-> 0]}

\* Object.keys(charData.characters), in the order of the response
CharOrder == <<"CHAR_A", "CHAR_B">>
ObjectKeys(chars) == SelectSeq(CharOrder, LAMBDA c : chars[c] # 0)

\* one annotation of a response: characters_present (missing, or a list of
\* ids, of which CHAR_X is in no identity map) with action_hint, and
\* state_changes (none, CHAR_A dead, CHAR_A alive, or something that cannot
\* be iterated or holds a null entry)
Annotations ==
    [present : {Some(<<"CHAR_B">>), Some(<<"CHAR_X">>)}, change : {"none"}]
        \cup [present : {Null}, change : {"dead", "alive", "malformed"}]

\* annotateData.annotations?.[i] || {}
NoAnnotation == [present |-> Null, change |-> "none"]

\* the annotation responses: failures, and parsed blocks with up to
\* MaxAnnotations annotations
AnnotationResponses ==
    {[kind |-> k, annotations |-> <<>>] : k \in {"throws", "noblock", "unparseable"}}
        \cup {[kind |-> "parsed", annotations |-> a] :
                 a \in UNION {[1..m -> Annotations] : m \in 0..MaxAnnotations}}

\* variant: the default names CHAR_A whatever the identity map holds
DefaultPresentCharA(chars) == <<"CHAR_A">>

\* [characterIds.split(', ')[0] || 'CHAR_A']
DefaultPresent(chars) ==
    IF ObjectKeys(chars) = <<>> THEN <<"CHAR_A">> ELSE <<ObjectKeys(chars)[1]>>

\* the scene pushed for a fragment when the batch has no usable response
DefaultScene(fragment, chars) ==
    [text |-> fragment.text, duration_sec |-> fragment.durationSec,
     characters_present |-> DefaultPresent(chars),
     action_hint |-> "Scene action to be determined", state_changes |-> <<>>]

\* the scene pushed for a fragment from its annotation
AnnotatedScene(fragment, annotation, chars) ==
    [text |-> fragment.text, duration_sec |-> fragment.durationSec,
     characters_present |-> IF annotation.present = Null THEN DefaultPresent(chars)
                            ELSE Val(annotation.present),
     action_hint |-> IF annotation.present = Null THEN "Scene action" ELSE "hint",
     state_changes |-> IF annotation.change = "none" THEN <<>>
                       ELSE <<[character_id |-> "CHAR_A",
                               new_status |-> annotation.change]>>]

\* variant: a character set to dead keeps its entry
ApplyChangeDeadStays(states, annotation, sceneIndex) ==
    IF annotation.change = "none"
          \/ (states["CHAR_A"] # Null /\ Val(states["CHAR_A"]).status = "dead")
    THEN states
    ELSE [states EXCEPT !["CHAR_A"] =
            Some([status |-> annotation.change, changedAtScene |-> sceneIndex])]

\* for (const change of stateChanges): characterStates[change.character_id] = ...
ApplyChange(states, annotation, sceneIndex) ==
    IF annotation.change = "none" THEN states
    ELSE [states EXCEPT !["CHAR_A"] =
            Some([status |-> annotation.change, changedAtScene |-> sceneIndex])]

\* for (let i = 0; i < batch.length; i++) allScenes.push(default)
DefaultsOf(batch, chars) == [i \in 1..Len(batch) |-> DefaultScene(batch[i], chars)]

\* the loop over a parsed batch from position i (0-based) on, inside try;
\* acc holds allScenes and characterStates; a throw ends in the catch
\* block, which pushes a default for every fragment of the batch
RECURSIVE AnnotateFrom(_, _, _, _, _, _)
AnnotateFrom(acc, batch, annotations, i, batchStart, chars) ==
    IF i >= Len(batch) THEN acc
    ELSE LET annotation == IF i + 1 <= Len(annotations) THEN annotations[i + 1]
                           ELSE NoAnnotation
         IN IF annotation.change = "malformed"
            THEN [acc EXCEPT !.allScenes = @ \o DefaultsOf(batch, chars)]
            ELSE AnnotateFrom(
                    [allScenes |-> Append(acc.allScenes,
                                          AnnotatedScene(batch[i + 1], annotation, chars)),
                     characterStates |-> ApplyChange(acc.characterStates, annotation,
                                                     batchStart + i)],
                    batch, annotations, i + 1, batchStart, chars)

\* what one annotation response adds to allScenes and characterStates
AnnotateBatch(acc, batch, response, batchStart, chars) ==
    IF response.kind = "parsed"
    THEN AnnotateFrom(acc, batch, response.annotations, 0, batchStart, chars)
    ELSE [acc EXCEPT !.allScenes = @ \o DefaultsOf(batch, chars)]

\* the state changes of a response that the loop over the batch comes to,
\* in the order of the response: those of the annotations before the first
\* one that makes the loop throw, each with the index of its scene
ReportedEvents(batch, response, batchStart) ==
    IF response.kind # "parsed" THEN <<>>
    ELSE LET n == Min(Len(batch), Len(response.annotations))
             reached(i) == \A j \in 1..i : response.annotations[j].change # "malformed"
             idx == SelectSeq([i \in 1..n |-> i],
                              LAMBDA i : reached(i) /\ response.annotations[i].change # "none")
         IN [k \in 1..Len(idx) |->
                [character_id |-> "CHAR_A",
                 new_status |-> response.annotations[idx[k]].change,
                 scene |-> batchStart + idx[k] - 1]]

\* textFragments.slice(batchStart, batchEnd)
BatchOf(textFragments, batchStart) ==
    SubSeq(textFragments, batchStart + 1,
           Min(batchStart + BATCH_SIZE, Len(textFragments)))

\* the StoryAnalysis analyzeStoryDeep returns
StoryAnalysis(rec) ==
    [characters |-> Val(rec.characters), era |-> "era", visual_style_lock |-> "style",
     scenes |-> rec.allScenes, characterStates |-> rec.characterStates]

\* variant: a response without a block is taken as an empty answer
ThrowsOnLenient(answer) == answer = "throws"

\* whether an identity pass throws on what its call came to
ThrowsOn(answer) == answer # "parsed"

\* generatePromptsV2(script, ..., sceneDuration) up to the first request of
\* analyzeStoryDeep: the script is split, the name pass is sent
GeneratePromptsV2Script(keys, script, sceneDuration) ==
    /\ StartRun(keys)
    /\ an' = [IdleAnalysis EXCEPT
                !.st = "name",
                !.textFragments = SplitScriptDeterministically(script, sceneDuration)]
    /\ UNCHANGED <<splitVars, stampVars, guardVars>>

\* the name pass is answered: parse, then the delay before the visual pass;
\* or a throw, which the catch block of generatePromptsV2 takes
NamePassReturns(answer) ==
    /\ an.st = "name"
    /\ IF ThrowsOn(answer)
       THEN /\ AnalysisThrows
            /\ an' = [an EXCEPT !.st = "failed", !.thrownIn = "name",
                                !.answers = Append(@, answer)]
       ELSE /\ an' = [an EXCEPT !.st = "nameDelay", !.nameData = TRUE,
                                !.answers = Append(@, answer)]
            /\ UNCHANGED <<mainVars, callVars>>
    /\ UNCHANGED <<splitVars, stampVars, guardVars>>

\* the visual pass is answered: parse, then the delay before annotation
VisualPassReturns(answer, chars) ==
    /\ an.st = "visual"
    /\ IF ThrowsOn(answer)
       THEN /\ AnalysisThrows
            /\ an' = [an EXCEPT !.st = "failed", !.thrownIn = "visual",
                                !.answers = Append(@, answer)]
       ELSE /\ an' = [an EXCEPT !.st = "visualDelay", !.characters = Some(chars),
                                !.answers = Append(@, answer)]
            /\ UNCHANGED <<mainVars, callVars>>
    /\ UNCHANGED <<splitVars, stampVars, guardVars>>

\* a timer of delayForFreeAPI inside analyzeStoryDeep fires: the visual pass
\* is sent; or characterStates is set up and the first batch is sent, or,
\* without fragments, the analysis is returned; or the next batch is sent
AnalysisDelayDone ==
    /\ an.st \in {"nameDelay", "visualDelay", "batchDelay"}
    /\ IF an.st = "nameDelay"
       THEN /\ an' = [an EXCEPT !.st = "visual"]
            /\ UNCHANGED <<mainVars, callVars>>
       ELSE IF an.st = "batchDelay"
       THEN /\ an' = [an EXCEPT !.st = "annotate", !.batchStart = @ + BATCH_SIZE]
            /\ UNCHANGED <<mainVars, callVars>>
       ELSE LET states == [c \in CharIds |->
                             IF Val(an.characters)[c] # 0
                             THEN Some([status |-> "alive", changedAtScene |-> 0])
                             ELSE Null]
                rec == [an EXCEPT !.characterStates = states]
            IN IF an.textFragments = <<>>
               THEN /\ AnalysisReturns(StoryAnalysis(rec))
                    /\ an' = [rec EXCEPT !.st = "done"]
               ELSE /\ an' = [rec EXCEPT !.st = "annotate"]
                    /\ UNCHANGED <<mainVars, callVars>>
    /\ UNCHANGED <<splitVars, stampVars, guardVars>>

\* an annotation request is answered: the scenes of the batch are pushed;
\* then the delay before the next batch, or the analysis is returned; a
\* throw of callGemini goes to the catch block of generatePromptsV2
AnnotationReturns(response) ==
    LET batch == BatchOf(an.textFragments, an.batchStart)
        acc == AnnotateBatch([allScenes |-> an.allScenes,
                              characterStates |-> an.characterStates],
                             batch, response, an.batchStart, Val(an.characters))
        rec == [an EXCEPT !.allScenes = acc.allScenes,
                          !.characterStates = acc.characterStates,
                          !.kinds = Append(@, response.kind),
                          !.events = @ \o ReportedEvents(batch, response, an.batchStart)]
    IN /\ an.st = "annotate"
       /\ IF response.kind = "throws"
          THEN /\ AnalysisThrows
               /\ an' = [an EXCEPT !.st = "failed", !.thrownIn = "annotate"]
          ELSE IF an.batchStart + BATCH_SIZE < Len(an.textFragments)
          THEN /\ an' = [rec EXCEPT !.st = "batchDelay"]
               /\ UNCHANGED <<mainVars, callVars>>
          ELSE /\ AnalysisReturns(StoryAnalysis(rec))
               /\ an' = [rec EXCEPT !.st = "done"]
       /\ UNCHANGED <<splitVars, stampVars, guardVars>>

\* one run of generatePromptsV2 up to the start of synthesis, with
\* analyzeStoryDeep seen call by call
NextAnalysis ==
    \/ \E keys \in KeyConfigs \ {"none"}, script \in AnalysisScripts,
          sceneDuration \in SceneDurations :
            GeneratePromptsV2Script(keys, script, sceneDuration)
    \/ \E answer \in CallResults : NamePassReturns(answer)
    \/ \E answer \in CallResults, chars \in IdentityMaps : VisualPassReturns(answer, chars)
    \/ AnalysisDelayDone
    \/ \E response \in AnnotationResponses : AnnotationReturns(response)
    \/ approvalResolverRef /\ ApproveCharacters(Null)

SpecAnalysis == Init /\ [][NextAnalysis]_vars

\* ---- the character lock of one scene ----

\* the identity maps a scene is built with: as extracted, as edited, and
\* with ids missing
StampMaps == IdentityMaps \cup ApprovalEdits \cup EditedMaps

\* generateScenePromptFull returns the prompt of a first scene: present is
\* characters_present of its segment, chars the identity map, perf the ids
\* with a performance in the response (none when there is no response)
BuildScene(present, chars, outcome, perf) ==
    /\ stamp = Null
    /\ outcome = "[BLOCKED]" => perf = {}
    /\ stamp' = Some([present |-> present, chars |-> chars, outcome |-> outcome,
                      perf |-> perf,
                      prompt |-> ScenePromptFrom([characters_present |-> present], 0,
                                                 chars, outcome, Null, perf)])
    /\ UNCHANGED <<mainVars, callVars, splitVars, analysisVars, guardVars>>

NextStamp ==
    \E present \in SUBSET CharIds, chars \in StampMaps, outcome \in Outcomes,
       perf \in SUBSET CharIds : BuildScene(present, chars, outcome, perf)

SpecStamp == Init /\ [][NextStamp]_vars

\* ---- properties ----

RunActive == pc # "none"
InLoop == pc \in {"pausewait", "synth", "delay"}

\* a step in which the loop issues synthesis requests (one scene or one batch)
StartsSynthesis == pc' = "synth" /\ pc # "synth"

\* C1: a generatePromptsV2 run that runs to completion returns exactly one
\* prompt per scene of the StoryAnalysis, and the prompt at position i has the
\* scene id of segment i, under the sequential and the batched strategy and
\* for every order in which the members of a batch settle.
C1_PromptsFollowSegments ==
    (runKind = "fresh" /\ result # Null /\ Val(result).outcome = "completed") =>
        LET ps == Val(result).prompts
        IN /\ Len(ps) = Len(Val(storyAnalysisLock).scenes)
           /\ \A i \in 1..Len(ps) : ps[i].scene_id = i

\* a batched run over more than one batch has completed, with a locally built scene in it
C1_Witness ==
    /\ runKind = "fresh" /\ usePaidParallel
    /\ result # Null /\ Val(result).outcome = "completed"
    /\ Len(Val(result).prompts) > PAID_PARALLEL_BATCH_SIZE
    /\ \E i \in 1..Len(Val(result).prompts) : Val(result).prompts[i].marker # ""

\* C2: within one run, whenever a character id is in the character_lock of
\* two scene prompts, its identity is the same in both and is the locked
\* identity (the identity map as it stood when generation was approved).
C2_IdentityByteIdentical ==
    (runKind = "fresh" /\ approvedChars # Null) =>
        \A i \in 1..Len(prompts) : \A j \in 1..Len(prompts) :
            \A c \in (DOMAIN prompts[i].character_lock) \cap (DOMAIN prompts[j].character_lock) :
                /\ prompts[i].character_lock[c] = prompts[j].character_lock[c]
                /\ prompts[i].character_lock[c] = Val(approvedChars)[c]

\* C3: once the run is past the approval step (generation has begun), no step
\* changes the StoryAnalysis: not its character map, era, style or scenes.
C3_AnalysisFrozen ==
    [][(InLoop /\ pc' # "none") => storyAnalysisLock' = storyAnalysisLock]_vars

\* C4: the phase changes only along idle -> analyzing -> awaiting_approval ->
\* generating <-> paused -> idle, plus analyzing / awaiting_approval -> idle.
PhaseEdges ==
    { <<"idle", "analyzing">>, <<"analyzing", "awaiting_approval">>,
      <<"awaiting_approval", "generating">>, <<"generating", "paused">>,
      <<"paused", "generating">>, <<"generating", "idle">>, <<"paused", "idle">>,
      <<"analyzing", "idle">>, <<"awaiting_approval", "idle">> }

C4_PhaseEdgesOnly ==
    [][phase' = phase \/ <<phase, phase'>> \in PhaseEdges]_vars

\* C5: once cancelGeneration has been called during a run, the run starts no
\* further scene synthesis and no further batch; a run woken from the
\* pause-wait by the cancellation stops without another request.
C5_NoSynthesisAfterCancel ==
    [][(RunActive /\ isCancelledRef') => ~StartsSynthesis]_vars

\* C6: a run during which cancelGeneration was called does not end as a
\* completed run: not with error == null, not with a snapshot marked complete.
C6_CancelledRunNotCompleted ==
    [][(RunActive /\ pc' = "none" /\ isCancelledRef') =>
          /\ Val(result').outcome # "completed"
          /\ error' # "null"
          /\ (snapshot' # Null => ~Val(snapshot').isComplete)]_vars

\* C7: while the pause flag stays set the loop starts no scene and no batch;
\* pausing leaves the requests in flight alone and a request that settles
\* during the pause is kept (it becomes a batch result or a prompt); a loop
\* woken from the pause-wait by resumeGeneration starts the scene or batch it
\* was waiting to start.
C7_PauseHoldsLoop ==
    [][/\ (isPausedRef /\ isPausedRef') => ~StartsSynthesis
       /\ (~isPausedRef /\ isPausedRef') =>
             /\ pc' = pc /\ inflight' = inflight
             /\ batchResults' = batchResults /\ prompts' = prompts
       /\ (isPausedRef /\ isPausedRef' /\ pc = "synth") =>
             /\ pc' \in {"synth", "delay"}
             /\ \A i \in inflight \ inflight' :
                   \/ i \in DOMAIN batchResults'
                   \/ /\ Len(prompts') > i
                      /\ prompts'[i + 1].scene_id = i + 1
       /\ (pc = "pausewait" /\ pc' # "pausewait" /\ ~isCancelledRef') =>
             /\ pc' = "synth" /\ cur' = cur /\ cur \in inflight'
      ]_vars

\* the loop is blocked in the pause-wait of a batched run, holding the results
\* of a batch that was in flight when the pause was requested
C7_Witness ==
    /\ pc = "pausewait" /\ isPausedRef /\ usePaidParallel
    /\ Len(prompts) = PAID_PARALLEL_BATCH_SIZE

\* C8: no scene is synthesized before the approval; the run stays in the
\* approval wait until approveCharacters or cancelGeneration; after an approval
\* with edited identities every scene prompt of the run is stamped with the
\* edited identities; after a cancellation of the approval no scene exists.
C8_ApprovalGate ==
    /\ pc \in {"analyzing", "approval"} => (prompts = <<>> /\ inflight = {})
    /\ (pc = "approval") <=> approvalResolverRef
    /\ (runKind = "fresh" /\ approvedChars # Null /\ Val(approvedChars) \in ApprovalEdits) =>
          \A i \in 1..Len(prompts) :
              prompts[i].character_lock =
                  StampLocal(Val(approvedChars),
                             Val(storyAnalysisLock).scenes[i].characters_present)
    /\ (runKind = "fresh" /\ approvedChars = Null) => prompts = <<>>

\* C9: the snapshots one run writes, in the order written, never lose
\* prompts and never step back in nextIndex (fresh and resumed runs, both
\* strategies).
C9_SnapshotsMonotonic ==
    \A a \in 1..Len(snapLog) : \A b \in a..Len(snapLog) :
        /\ Len(snapLog[a].prompts) <= Len(snapLog[b].prompts)
        /\ snapLog[a].currentSceneIndex <= snapLog[b].currentSceneIndex

\* a resumed run has completed after writing several snapshots
C9_Witness ==
    /\ runKind = "continue" /\ Len(snapLog) >= 3
    /\ result # Null /\ Val(result).outcome = "completed"

C11_ContinueFromNextIndex ==
    (runKind = "continue") =>
        LET project == Val(resumed)
            kept == Len(project.prompts)
            n == Len(project.storyAnalysis.scenes)
        IN /\ storyAnalysisLock = Some(project.storyAnalysis)
           /\ pc \notin {"analyzing", "approval"}
           /\ Len(prompts) >= kept
           /\ SubSeq(prompts, 1, kept) = project.prompts
           /\ \A k \in (kept + 1)..Len(prompts) :
                 /\ k > project.currentSceneIndex
                 /\ prompts[k].scene_id = k
           /\ \A i \in inflight : i >= project.currentSceneIndex /\ i >= Len(prompts)
           /\ (pc = "synth" /\ ~usePaidParallel) => inflight = {Len(prompts)}
           /\ (pc = "synth" /\ usePaidParallel) => cur = Len(prompts)
           /\ (result # Null /\ Val(result).outcome = "completed") =>
                 /\ Val(result).prompts = prompts
                 /\ Len(prompts) = n
                 /\ \A k \in 1..n : prompts[k].scene_id = k

\* a run resumed in the middle of a project has completed
C11_Witness ==
    /\ runKind = "continue"
    /\ Val(resumed).currentSceneIndex > 0
    /\ Val(resumed).currentSceneIndex < Len(Val(resumed).storyAnalysis.scenes)
    /\ result # Null /\ Val(result).outcome = "completed"
    /\ Len(prompts) = Len(Val(resumed).storyAnalysis.scenes)

\* C12: regenerating scene k replaces the prompt of scene k on display and
\* nothing else: every other prompt on display stays as it was, the run's own
\* prompts, the StoryAnalysis and the stored snapshot are untouched, no
\* analysis or approval is entered, and a locally built replacement carries
\* the background and camera of the prompt that was on display before scene k
\* when the request was made (generic defaults for the first scene); also
\* while a generation run is in progress.
C12_RegenerateOnlySceneK ==
    [][(regen # Null /\ regen' = Null /\ pc' = pc /\ runKind' = runKind) =>
          LET k == Val(regen).sceneIndex
          IN /\ Len(shown') >= Len(shown)
             /\ \A j \in 1..Len(shown) : j # k + 1 => shown'[j] = shown[j]
             /\ shown'[k + 1].scene_id = k + 1
             /\ shown'[k + 1].marker # "" =>
                   /\ shown'[k + 1].background_lock =
                         (IF k = 0 THEN DefaultBackground
                          ELSE Val(Val(regen).previousPrompt).background_lock)
                   /\ shown'[k + 1].camera =
                         (IF k = 0 THEN DefaultCamera
                          ELSE Val(Val(regen).previousPrompt).camera)
             /\ prompts' = prompts /\ batchResults' = batchResults
             /\ storyAnalysisLock' = storyAnalysisLock
             /\ snapshot' = snapshot]_vars

\* a scene other than the first was regenerated while a batched run was
\* between two batches, and the replacement was built locally
C12_Witness ==
    /\ regen = Null /\ regens > 0 /\ pc = "delay" /\ usePaidParallel
    /\ Len(prompts) = PAID_PARALLEL_BATCH_SIZE /\ Len(shown) = Len(prompts)
    /\ shown # prompts
    /\ \E j \in 2..Len(shown) : shown[j].marker # "" /\ prompts[j].marker = ""

\* C13: a prompt marked [BLOCKED] for scene i has the background and the
\* camera of the prompt of scene i-1 (the generic defaults when i is the
\* first scene), under the sequential and the batched strategy.
C13_BlockedInheritsPrevious ==
    \A k \in 1..Len(prompts) :
        (prompts[k] # Hole /\ prompts[k].marker = "[BLOCKED]") =>
            /\ prompts[k].background_lock =
                  (IF k = 1 THEN DefaultBackground ELSE prompts[k - 1].background_lock)
            /\ prompts[k].camera =
                  (IF k = 1 THEN DefaultCamera ELSE prompts[k - 1].camera)

\* the text generateScenePromptFull parsed for caller c is one the claim's
\* words call flagged: the narration has a distress keyword and the setting
\* or the action summary has a mundane one
Flagged(c) ==
    /\ call[c].response # Null
    /\ call[c].distress
    /\ Val(call[c].response).setting \/ Val(call[c].response).action

\* C14: when the parsed response of a scene is flagged, the prompt returned is
\* the local build marked [SANITIZED] and its background, camera and action
\* summary are not those of the response; a prompt is made of a response only
\* when that response is not flagged.
C14_SanitizedDiscarded ==
    \A c \in Callers :
        (call[c].st = "returned" /\ call[c].response # Null) =>
            IF Flagged(c)
            THEN /\ Val(call[c].result).marker = "[SANITIZED]"
                 /\ Val(call[c].result).background_lock # "response"
                 /\ Val(call[c].result).camera # "response"
                 /\ Val(call[c].result).scene_action_summary # "response"
            ELSE Val(call[c].result) = RemoteResult

\* a response with a mundane action summary only, for a narration of
\* distress, was replaced by the local build
C14_Witness ==
    \E c \in Callers :
        /\ call[c].st = "returned" /\ Flagged(c)
        /\ ~Val(call[c].response).setting
        /\ Val(call[c].result).marker = "[SANITIZED]"

\* caller c sends a request in this step
SendsRequest(c) ==
    /\ call'[c].st = "request"
    /\ call[c].st # "request" \/ call'[c].requests # call[c].requests
          \/ call'[c].pass # call[c].pass

\* C15: once a request for a scene met content-policy interference (a block
\* signal from the service, or a flagged response), no further request is
\* sent for that scene.
C15_NoResendAfterInterference ==
    [][\A c \in Callers :
          (call[c].interference /\ call'[c].interference) => ~SendsRequest(c)]_vars

\* C16: a scene gets at most 3 attempts; the [BLOCKED] prompt is returned only
\* when the third attempt has failed as the two before it; and a call of
\* generateScenePromptFull that has ended has returned a prompt, whatever
\* failed in it.
C16_ThreeAttemptsThenBlocked ==
    \A c \in Callers :
        /\ call[c].attempt + 1 <= 3
        /\ call[c].st \in {"idle", "request", "cooldown", "backoff", "returned"}
        /\ call[c].st = "backoff" => call[c].attempt + 1 < 3
        /\ call[c].st = "returned" <=> call[c].result # Null
        /\ (call[c].result # Null /\ Val(call[c].result).marker = "[BLOCKED]") =>
              call[c].attempt + 1 = 3 /\ call[c].failures = 3

\* a scene was built locally after three attempts, the last of which was
\* refused by every key, while another scene of the batch is under way
C16_Witness ==
    /\ call["a"].result # Null /\ Val(call["a"].result).marker = "[BLOCKED]"
    /\ call["a"].raised /\ apiKeys.freeKeys > 0
    /\ call["b"].st = "request"

\* C17: with no credential configured a run that has scenes left to
\* synthesize produces no prompt, writes no snapshot and does not end as a
\* completed run.
C17_NoKeysFailFast ==
    (/\ runKind # "none" /\ ~hasKeys
     /\ runKind = "continue" =>
            Val(resumed).currentSceneIndex < Len(Val(resumed).storyAnalysis.scenes)) =>
        /\ snapLog = <<>>
        /\ Len(prompts) = (IF runKind = "continue" THEN Len(Val(resumed).prompts) ELSE 0)
        /\ result # Null => Val(result).outcome # "completed"

\* the number of logical calls, among those logged, that asked free key k first
Uses(k) == Cardinality({n \in 1..Len(firstKeys) : firstKeys[n] = k})

\* C18: from a fresh key configuration with K >= 1 free keys, as long as every
\* request has succeeded, the n-th logical call (counting from 0) asks free
\* key n mod K, so the numbers of uses of any two keys differ by at most one;
\* also when calls are under way at once.
C18_RoundRobin ==
    (allFirstTry /\ apiKeys.freeKeys >= 1) =>
        /\ \A n \in 1..Len(firstKeys) : firstKeys[n] = (n - 1) % apiKeys.freeKeys
        /\ \A j \in 0..(apiKeys.freeKeys - 1) : \A k \in 0..(apiKeys.freeKeys - 1) :
              Uses(j) <= Uses(k) + 1

\* three logical calls were made without a failure, two of them under way at once
C18_Witness ==
    /\ allFirstTry /\ apiKeys.freeKeys = 2 /\ Len(firstKeys) = 3
    /\ call["a"].st = "request" /\ call["b"].st = "request"

\* C19: in the first pass of a logical call no free key is asked twice; the
\* key asked after a failure is one not tried before in the call, and every
\* key asked before it has failed; the call waits for the cooldown, turns to
\* the paid key or raises an error only when every free key has failed in it.
C19_NextUntriedKey ==
    \A c \in Callers :
        LET rec == call[c]
            keys == 0..(apiKeys.freeKeys - 1)
            askedSet == {rec.asked[i] : i \in 1..Len(rec.asked)}
        IN /\ Cardinality(askedSet) = Len(rec.asked)
           /\ askedSet \subseteq keys
           /\ (rec.st = "request" /\ rec.pass = "first") =>
                 /\ rec.asked[Len(rec.asked)] = rec.currentIndex
                 /\ rec.failed = askedSet \ {rec.currentIndex}
           /\ (rec.raised \/ rec.st = "cooldown" \/ rec.pass \in {"paid", "retry"}) =>
                 rec.failed = keys

\* a free-only call with two keys has raised its error after both keys and
\* the retry after the cooldown failed
C19_Witness ==
    \E c \in Callers :
        /\ ~apiKeys.paidKey /\ apiKeys.freeKeys = 2
        /\ call[c].raised /\ Len(call[c].asked) = 2

\* C20: with a paid key configured a logical call asks the paid key only
\* after every free key was asked and failed in it, sends at most K + 1
\* requests, and never waits for a cooldown.
C20_PaidFallbackNoWait ==
    apiKeys.paidKey =>
        \A c \in Callers :
            LET rec == call[c]
            IN /\ rec.st # "cooldown" /\ rec.pass # "retry"
               /\ rec.requests <= apiKeys.freeKeys + 1
               /\ rec.pass = "paid" =>
                     /\ rec.failed = 0..(apiKeys.freeKeys - 1)
                     /\ Len(rec.asked) = apiKeys.freeKeys
                     /\ rec.requests = apiKeys.freeKeys + 1

\* the paid key is asked after two free keys failed
C20_Witness ==
    \E c \in Callers :
        /\ apiKeys.paidKey /\ apiKeys.freeKeys = 2
        /\ call[c].st = "request" /\ call[c].pass = "paid" /\ call[c].requests = 3

\* C21: in free-only mode a logical call waits for a cooldown at most once,
\* only after every free key has failed once; the wait is 60 seconds when no
\* hint was parsed, otherwise at least the hinted time and never more than
\* 120 seconds; one more request follows it, and when that fails too the call
\* raises, having sent K + 1 requests and waited once.
C21_OneCooldownRetry ==
    \A c \in Callers :
        LET rec == call[c]
            numKeys == apiKeys.freeKeys
        IN (~apiKeys.paidKey /\ numKeys >= 1) =>
            /\ Len(rec.cooldowns) <= 1
            /\ rec.requests <= numKeys + 1
            /\ rec.st = "cooldown" =>
                    /\ rec.cooldowns = <<rec.lastRetryDelay>>
                    /\ rec.requests = numKeys
                    /\ rec.failed = 0..(numKeys - 1)
            /\ \A k \in 1..Len(rec.cooldowns) :
                    /\ rec.cooldowns[k] <= 120000
                    /\ rec.hint = Null => rec.cooldowns[k] = 60000
                    /\ rec.hint # Null =>
                            \/ rec.cooldowns[k] = 120000
                            \/ rec.cooldowns[k] >= Val(rec.hint) * 100
            /\ (rec.st = "request" /\ rec.cooldowns # <<>>) =>
                    rec.pass = "retry" /\ rec.requests = numKeys + 1
            /\ rec.raised => Len(rec.cooldowns) = 1 /\ rec.requests = numKeys + 1

\* with two free keys a call has raised after a cooldown that the cap cut to
\* 120 seconds
C21_Witness ==
    \E c \in Callers :
        /\ ~apiKeys.paidKey /\ apiKeys.freeKeys = 2
        /\ call[c].raised /\ call[c].hint = Some(1181)
        /\ call[c].cooldowns = <<120000>>

\* C22: in the sequential strategy the pacing timer between two scenes has
\* the length calculateDelay gives for the number of free keys, whatever
\* that number is.
C22_PacingFromKeyCount ==
    (timer # Null /\ hasKeys /\ ~usePaidParallel) =>
        \E numKeys \in 1..MaxKeys : Val(timer) = CalculateDelay(numKeys)

RECURSIVE SumOf(_)
SumOf(seq) == IF seq = <<>> THEN 0 ELSE seq[1] + SumOf(Tail(seq))

RECURSIVE Flatten(_)
Flatten(seqs) == IF seqs = <<>> THEN <<>> ELSE seqs[1] \o Flatten(Tail(seqs))

\* C23: the fragments of the Segmenter partition the script: their texts put
\* end to end are the sentences 1..n, each once and in order; their word
\* counts add up to the words of the script; the first fragment starts at
\* word 0, each ends at startWord + wordCount - 1 and the next starts one
\* word later.
C23_FragmentsPartitionScript ==
    split # Null =>
        LET script == Val(split).script
            fr == Val(split).fragments
        IN /\ Flatten([k \in 1..Len(fr) |-> fr[k].text]) = [k \in 1..Len(script) |-> k]
           /\ SumOf([k \in 1..Len(fr) |-> fr[k].wordCount]) = SumOf(script)
           /\ \A k \in 1..Len(fr) :
                /\ fr[k].wordCount = SumOf([j \in 1..Len(fr[k].text) |->
                                                script[fr[k].text[j]]])
                /\ fr[k].startWord = (IF k = 1 THEN 0 ELSE fr[k - 1].endWord + 1)
                /\ fr[k].endWord = fr[k].startWord + fr[k].wordCount - 1

\* a script of three sentences was cut in two fragments, the first of two
\* sentences, the second flushed by the time carried over
C23_Witness ==
    /\ split # Null
    /\ Len(Val(split).script) = 3
    /\ Len(Val(split).fragments) = 2
    /\ Len(Val(split).fragments[1].text) = 2
    /\ Val(split).fragments[2].startWord > 0

\* C24: whatever the remote service answered during annotation, the analysis
\* returned has one scene per fragment of the Segmenter, in the order of the
\* fragments, and scene i has the text and the duration of fragment i.
C24_SceneCountFromScript ==
    an.st = "done" =>
        LET scenes == Val(storyAnalysisLock).scenes
        IN /\ Len(scenes) = Len(an.textFragments)
           /\ \A i \in 1..Len(scenes) :
                /\ scenes[i].text = an.textFragments[i].text
                /\ scenes[i].duration_sec = an.textFragments[i].durationSec

\* scene i of the analysis under way reports the status for CHAR_A
Reports(i, status) ==
    \E k \in 1..Len(an.allScenes[i].state_changes) :
        an.allScenes[i].state_changes[k].new_status = status

\* C25: once a state change has set a character to dead at a scene, no
\* state change of a later scene sets it to alive, and the state map does
\* not show it alive afterwards.
C25_DeadStaysDead ==
    \A i \in 1..Len(an.allScenes) :
        Reports(i, "dead") =>
            /\ \A j \in (i + 1)..Len(an.allScenes) : ~Reports(j, "alive")
            /\ an.characterStates["CHAR_A"] # Null
            /\ Val(an.characterStates["CHAR_A"]).status # "alive"

\* C26: every id in characters_present of a scene of the analysis has an
\* identity in the identity map.
C26_PresentIdsKnown ==
    an.characters # Null =>
        \A i \in 1..Len(an.allScenes) :
            \A k \in 1..Len(an.allScenes[i].characters_present) :
                LET id == an.allScenes[i].characters_present[k]
                IN id \in CharIds /\ Val(an.characters)[id] # 0

\* C27: the visual pass is sent only after the name pass was answered and
\* parsed, annotation only after the visual pass was; when the answer to
\* either pass is not a block that parses, the run is over: no identity map,
\* no scene, no prompt, no approval asked or given, phase idle with the
\* error recorded.
C27_IdentityParseFailureIsHard ==
    /\ an.st \in {"visual", "visualDelay", "annotate", "batchDelay", "done"} =>
            an.nameData /\ Len(an.answers) >= 1 /\ an.answers[1] = "parsed"
    /\ an.st \in {"annotate", "batchDelay", "done"} =>
            an.characters # Null /\ Len(an.answers) = 2 /\ an.answers[2] = "parsed"
    /\ an.st \in {"name", "nameDelay", "visual"} => an.characters = Null
    /\ (\E k \in 1..Len(an.answers) : an.answers[k] # "parsed") =>
            /\ an.st = "failed" /\ an.thrownIn \in {"name", "visual"}
            /\ an.characters = Null /\ an.allScenes = <<>> /\ an.kinds = <<>>
            /\ storyAnalysisLock = Null
            /\ ~approvalResolverRef /\ approvedChars = Null
            /\ prompts = <<>> /\ pc = "none"
            /\ phase = "idle" /\ ~isGenerating /\ error # "null"

\* the name pass parsed, the answer to the visual pass did not, and the run
\* has ended with its error
C27_Witness ==
    /\ an.st = "failed" /\ an.answers = <<"parsed", "unparseable">>
    /\ phase = "idle" /\ error # "null" /\ pc = "none"

\* a step in which an annotation request was answered without a block, or
\* with one that JSON.parse rejects
BatchFailsToParse ==
    /\ an.st = "annotate" /\ Len(an'.kinds) = Len(an.kinds) + 1
    /\ an'.kinds[Len(an'.kinds)] \in {"noblock", "unparseable"}

\* C28: when the answer to an annotation request has no block or does not
\* parse, the run goes on: the scenes pushed so far are kept, one scene is
\* added per fragment of the batch, with the text and duration of its
\* fragment, the first id of the identity map as the only character
\* present, the generic action hint and no state change; the state map is
\* left alone; the next batch follows if there is one.
C28_DefaultsOnBatchFailure ==
    [][BatchFailsToParse =>
        LET batch == BatchOf(an.textFragments, an.batchStart)
            chars == Val(an.characters)
            n == Len(an.allScenes)
        IN /\ Len(an'.allScenes) = n + Len(batch)
           /\ SubSeq(an'.allScenes, 1, n) = an.allScenes
           /\ \A i \in 1..Len(batch) :
                LET scene == an'.allScenes[n + i]
                IN /\ scene.text = batch[i].text
                   /\ scene.duration_sec = batch[i].durationSec
                   /\ Len(scene.characters_present) = 1
                   /\ (\E c \in CharIds : chars[c] # 0) =>
                        scene.characters_present[1] =
                            (IF chars["CHAR_A"] # 0 THEN "CHAR_A" ELSE "CHAR_B")
                   /\ scene.action_hint = "Scene action to be determined"
                   /\ scene.state_changes = <<>>
           /\ an'.characterStates = an.characterStates
           /\ an'.st = (IF an.batchStart + BATCH_SIZE < Len(an.textFragments)
                        THEN "batchDelay" ELSE "done")
           /\ an'.thrownIn = "none" /\ pc' # "none" /\ error' = "null"]_vars

\* the first of two batches did not parse and the second was annotated:
\* twenty default scenes naming CHAR_B, the only known character, then an
\* annotated one
C28_Witness ==
    /\ an.st = "done" /\ an.kinds = <<"unparseable", "parsed">>
    /\ Len(an.allScenes) = BATCH_SIZE + 1
    /\ Val(an.characters)["CHAR_A"] = 0
    /\ an.allScenes[BATCH_SIZE].characters_present = <<"CHAR_B">>
    /\ an.allScenes[BATCH_SIZE + 1].action_hint = "hint"

\* a step in which a scene (sequential) or a batch (parallel) is completed
\* and onProgress is called
ProgressStep == pc = "synth" /\ pc' = "delay"

\* C29: each time a scene or a batch is completed the progress callback is
\* given the whole list of prompts: it is the run's list, without gaps and
\* in scene order, it holds every scene completed so far, it extends the
\* list given before (on resume, the prompts of the snapshot) and is longer
\* than it, and it is never longer than the number of scenes.
C29_ProgressListGrows ==
    [][ProgressStep =>
        LET n == Len(Val(storyAnalysisLock).scenes)
        IN /\ shown' = prompts'
           /\ \A k \in 1..Len(shown') : shown'[k].scene_id = k
           /\ Len(shown') = (IF usePaidParallel
                             THEN Min(cur + PAID_PARALLEL_BATCH_SIZE, n)
                             ELSE cur + 1)
           /\ Len(shown') > Len(shown) /\ Len(shown') <= n
           /\ SubSeq(shown', 1, Len(shown)) = shown
           /\ runKind = "continue" =>
                /\ Len(shown') > Len(Val(resumed).prompts)
                /\ SubSeq(shown', 1, Len(Val(resumed).prompts)) = Val(resumed).prompts
       ]_vars

\* a resumed batched run has reported its last batch: the list on display
\* holds the prompts of the snapshot and the new ones
C29_Witness ==
    /\ runKind = "continue" /\ usePaidParallel /\ pc = "delay"
    /\ Len(Val(resumed).prompts) > 0
    /\ Len(shown) > Len(Val(resumed).prompts) + 1
    /\ Len(shown) = Len(Val(storyAnalysisLock).scenes)

\* C30: the sequential strategy has at most one synthesis call under way;
\* the batched strategy at most five, all of one batch; the members of the
\* batch are either under way or settled and held back; nothing of a batch
\* that has a member under way is on display or in the snapshot, and what is
\* there sits at its scene's position.
C30_OneBatchAtATime ==
    /\ ~usePaidParallel => Cardinality(inflight) <= 1 /\ batchResults = <<>>
    /\ inflight # {} => pc = "synth" /\ storyAnalysisLock # Null
    /\ (usePaidParallel /\ pc = "synth") =>
            LET n == Len(Val(storyAnalysisLock).scenes)
                batch == cur..(Min(cur + 5, n) - 1)
            IN /\ Cardinality(inflight) <= 5
               /\ inflight \subseteq batch
               /\ DOMAIN batchResults = batch \ inflight
               /\ Len(prompts) = cur /\ Len(shown) <= cur
               /\ snapshot # Null => Len(Val(snapshot).prompts) <= cur
    /\ pc # "synth" => inflight = {} /\ batchResults = <<>>
    /\ \A k \in 1..Len(shown) : shown[k].scene_id = k
    /\ snapshot # Null =>
            \A k \in 1..Len(Val(snapshot).prompts) : Val(snapshot).prompts[k].scene_id = k

\* the second batch of a batched run is under way: the five scenes of the
\* first batch are on display and in the snapshot, the sixth is not
C30_Witness ==
    /\ usePaidParallel /\ pc = "synth" /\ cur = 5 /\ inflight = {5}
    /\ Len(shown) = 5 /\ snapshot # Null /\ Len(Val(snapshot).prompts) = 5

\* C31: every fragment of the Segmenter, the final remainder included, has
\* durationSec = max(4, r), where r is wordCount / (WPM / 60) rounded to
\* the nearest integer (halves up): the duration follows the words of the
\* fragment, not the target duration, and is never below 4.
C31_DurationFromWordCount ==
    split # Null =>
        \A k \in 1..Len(Val(split).fragments) :
            LET f == Val(split).fragments[k]
            IN /\ f.durationSec >= 4
               /\ \E r \in 0..(MaxSentences * MaxWords) :
                    /\ (2 * r - 1) * WPM <= 2 * 60 * f.wordCount
                    /\ 2 * 60 * f.wordCount < (2 * r + 1) * WPM
                    /\ f.durationSec = (IF r > 4 THEN r ELSE 4)

\* a split at the default target that never flushed: the ten words of the
\* script are the remainder, 4.96 seconds of narration, which lasts 5
C31_Witness ==
    /\ split # Null
    /\ Val(split).sceneDuration = DEFAULT_SCENE_DURATION
    /\ Val(split).remainder
    /\ Len(Val(split).fragments) = 1
    /\ Val(split).fragments[1].wordCount = 10
    /\ Val(split).fragments[1].durationSec = 5

\* C40: every fragment flushed inside the loop, that is every fragment but
\* the final remainder, holds at least the target duration of words:
\* wordCount / (WPM / 60) >= sceneDuration.
C40_FlushedHoldTarget ==
    split # Null =>
        LET fr == Val(split).fragments
            flushed == IF Val(split).remainder THEN Len(fr) - 1 ELSE Len(fr)
        IN \A k \in 1..flushed :
              fr[k].wordCount * 60 >= Val(split).sceneDuration * WPM

\* C32: once the state map is set up it has an entry for a character id
\* exactly when the identity map has one; before the first annotation every
\* entry is (alive, changedAtScene 0); a state change naming an id the
\* identity map lacks adds no entry.
C32_StateMapMatchesIdentityMap ==
    an.st \in {"annotate", "batchDelay", "done"} =>
        /\ \A c \in CharIds :
              (an.characterStates[c] # Null) <=> (Val(an.characters)[c] # 0)
        /\ an.kinds = <<>> =>
              \A c \in CharIds :
                 an.characterStates[c] # Null =>
                    Val(an.characterStates[c]) = [status |-> "alive", changedAtScene |-> 0]

\* the scene of the last state change reported so far
LastEventScene ==
    CHOOSE m \in {an.events[k].scene : k \in 1..Len(an.events)} :
        \A k \in 1..Len(an.events) : an.events[k].scene <= m

C34_LockKeysArePresentKnown ==
    stamp # Null =>
        DOMAIN Val(stamp).prompt.character_lock
            = {c \in Val(stamp).present : Val(stamp).chars[c] # 0}

\* C35: the phase agrees with the pause flag under every interleaving of
\* pause, resume, approve and cancel with a run: while the loop is blocked
\* in waitIfPaused the phase is paused, and while the phase is generating
\* the loop is not blocked waiting for a resume.
C35_PhaseAgreesWithPause ==
    /\ pc = "pausewait" => phase = "paused"
    /\ phase = "generating" => pc # "pausewait"

\* C36: in every GenerationState isGenerating is true exactly when the
\* phase is not idle, and while a run of generatePromptsV2 or
\* continueFromProgress is in progress the phase is not idle, whatever
\* public operations are called and in whatever order.
C36_GeneratingIffNotIdle ==
    /\ isGenerating <=> phase # "idle"
    /\ RunActive => phase # "idle"

\* the snapshots written so far by the run, the one in the store, and the
\* one offered at page load
Snapshots ==
    {snapLog[k] : k \in 1..Len(snapLog)}
        \cup (IF snapshot # Null THEN {Val(snapshot)} ELSE {})
        \cup (IF savedProgress # Null THEN {Val(savedProgress)} ELSE {})

\* C37: every snapshot is consistent in itself: its nextIndex is the number
\* of prompts it holds, its prompt at position i is the prompt of scene i,
\* and it is complete only with nextIndex at the number of scenes of its
\* StoryAnalysis; a run resumed from a snapshot has its prompts aligned
\* with the segments.
C37_SnapshotSelfConsistent ==
    /\ \A s \in Snapshots :
          /\ s.currentSceneIndex = Len(s.prompts)
          /\ \A i \in 1..Len(s.prompts) : s.prompts[i].scene_id = i
          /\ s.isComplete => s.currentSceneIndex = Len(s.storyAnalysis.scenes)
    /\ runKind = "continue" =>
          /\ Len(prompts) <= Len(Val(storyAnalysisLock).scenes)
          /\ \A i \in 1..Len(prompts) : prompts[i].scene_id = i

\* a batched run resumed from a snapshot of a sequential run has written
\* the completing snapshot over more scenes than one batch
C37_Witness ==
    /\ runKind = "continue" /\ usePaidParallel
    /\ resumed # Null /\ Val(resumed).currentSceneIndex = 1
    /\ snapshot # Null /\ Val(snapshot).isComplete
    /\ Val(snapshot).currentSceneIndex = MaxScenes

\* C38: every run that was started comes back to phase idle, completed,
\* cancelled or failed, when every remote request returns, the approval is
\* given or refused and every pause is followed by a resume or a cancel:
\* no interleaving of pause, resume, approve and cancel leaves the run
\* waiting for ever.
C38_RunReturnsToIdle ==
    RunActive ~> (~RunActive /\ phase = "idle" /\ ~isGenerating)

\* the run was paused while it waited for the approval and approved
\* afterwards: its loop waits for a resume
C38_Witness ==
    /\ pc = "pausewait" /\ pauseResolverRef /\ isPausedRef
    /\ phase = "generating" /\ prompts = <<>>

\* C39: regenerateSceneV2 called without a StoryAnalysis, or with a scene
\* index below 0 or not below the number of scenes, throws: no request is
\* sent and no regeneration is under way afterwards, the GenerationState
\* and the StoryAnalysis are as before; and a regeneration only ever starts
\* with a StoryAnalysis and an index of one of its scenes.
C39_RegenerateGuards ==
    [][/\ Len(thrown') > Len(thrown) =>
            /\ \/ storyAnalysisLock = Null
               \/ thrown'[Len(thrown')] = "Invalid scene index"
            /\ storyAnalysisLock = Null =>
                    thrown'[Len(thrown')] = "No previous analysis available"
            /\ UNCHANGED <<phase, isGenerating, error, storyAnalysisLock, regen>>
            /\ UNCHANGED <<shown, prompts, callVars>>
       /\ (regen = Null /\ regen' # Null) =>
            /\ storyAnalysisLock # Null
            /\ Val(regen').sceneIndex \in 0..(Len(Val(storyAnalysisLock).scenes) - 1)
            /\ thrown' = thrown]_vars

\* a call before any analysis and a call with an index past the last scene
\* while the run was synthesizing were both refused, the run left as it was
C39_Witness ==
    /\ thrown = <<"No previous analysis available", "Invalid scene index">>
    /\ pc = "synth" /\ phase = "generating" /\ regen = Null

====
